---- MODULE Spec2Model ----
(***************************************************************************)
(* Verification model of the LinkedIn job scraper (src/job_scraper.py).   *)
(*                                                                         *)
(* Spec        LinkedinSession.get_html, one loop iteration per step       *)
(* SpecScrape  LinkedinJobScraper.scrape_jobs, one listing page per step   *)
(* SpecDescr   LinkedinJobScraper.get_job_descriptions, one row per step   *)
(*                                                                         *)
(* In SpecScrape and SpecDescr a get_html call is the operator get_html,   *)
(* the same loop run to its end against a scripted server.                 *)
(***************************************************************************)
EXTENDS Integers, Sequences, FiniteSets, TLC

\* ------------------------------------------------------------ constants
\* LinkedinSession class attributes
MAX_TRIES == 20
MAX_TIMEOUT_ON_429 == 5
MIN_TIMEOUT_ON_429 == 1

\* LinkedinJobScraper class attributes
N_JOBS_PER_PAGE == 10
MAX_N_JOBS == 1000

\* Strings are sequences of characters.  constants.UNKNOWN
UNKNOWN == <<"U", "N", "K", "N", "O", "W", "N">>

\* Python's None / a str value, where a value may be either.
PyNone == [none |-> TRUE, s |-> <<>>]
PyStr(t) == [none |-> FALSE, s |-> t]

\* ------------------------------------------------------------ bounds
\* number of get_html calls made on one session
MaxCalls == 2
\* largest n_jobs argument passed to scrape_jobs
MaxNJobs == 25
\* largest page_start argument passed to scrape_jobs
MaxPageStart == 2
\* listing pages from this page number on are served without entries
MaxServerPages == 3
\* get_job_descriptions calls made on one frame
MaxDescrCalls == 2
\* rows of the frames get_job_descriptions is called on
MaxRows == 3

\* ------------------------------------------------------------ HTTP
\* A response of requests.Session.get: status code and body.  NoneRes is
\* Python's None in the local `res` of get_html.
NoneRes == [status_code |-> 0, content |-> "None"]

\* Bodies the server sends with a 200 in the session model.
Bodies == {"body_a", "body_b"}
ErrBody == "error_page"

Response(sc, body) == [status_code |-> sc, content |-> body]

\* What one session.get call can do: raise RequestException, or answer.
ExcOutcome == [exc |-> TRUE, res |-> NoneRes]
RespOutcome(r) == [exc |-> FALSE, res |-> r]
NoOutcome == [exc |-> FALSE, res |-> NoneRes]

\* Status codes get_html's loop falls through on (neither 200, 429 nor 400).
OtherStatusCodes == {404, 500}

\* BeautifulSoup(res.content, features="lxml"): the parsed document.
BeautifulSoup(content) == [tree |-> content]

\* Results of a get_html call: the document or one of the three exceptions.
NoResult == [kind |-> "none", sc |-> 0, doc |-> BeautifulSoup("None")]
Returned(doc) == [kind |-> "ok", sc |-> 200, doc |-> doc]
SystemError == [kind |-> "SystemError", sc |-> 0, doc |-> BeautifulSoup("None")]
TimeoutError == [kind |-> "TimeoutError", sc |-> 429, doc |-> BeautifulSoup("None")]
BadStatusCode(sc) == [kind |-> "BadStatusCode", sc |-> sc, doc |-> BeautifulSoup("None")]
\* Python's TypeError for a call with an unexpected keyword argument.
TypeError == [kind |-> "TypeError", sc |-> 0, doc |-> BeautifulSoup("None")]

\* Mutant: the `res is None` test is missing.
GetHtmlOutcome_NoNoneTest(r, status) ==
    IF status = 429 THEN TimeoutError
    ELSE IF status # 200 THEN BadStatusCode(status)
    ELSE Returned(BeautifulSoup(r.content))

\* Mutant: a final 429 is reported like any other bad status.
GetHtmlOutcome_429AsBadStatus(r, status) ==
    IF r = NoneRes THEN SystemError
    ELSE IF status # 200 THEN BadStatusCode(status)
    ELSE Returned(BeautifulSoup(r.content))

\* get_html after its loop: the three raises and the return.
GetHtmlOutcome(r, status) ==
    IF r = NoneRes THEN SystemError
    ELSE IF status = 429 THEN TimeoutError
    ELSE IF status # 200 THEN BadStatusCode(status)
    ELSE Returned(BeautifulSoup(r.content))

\* ------------------------------------------------------------ strings
Whitespace == {" "}

\* str.strip()
RECURSIVE LStrip(_)
LStrip(t) == IF t # <<>> /\ Head(t) \in Whitespace THEN LStrip(Tail(t)) ELSE t
RECURSIVE RStrip(_)
RStrip(t) ==
    IF t # <<>> /\ t[Len(t)] \in Whitespace
    THEN RStrip(SubSeq(t, 1, Len(t) - 1)) ELSE t
Strip(t) == RStrip(LStrip(t))

\* Positions of character c in t.
Positions(t, c) == {k \in 1..Len(t) : t[k] = c}
Min(S) == CHOOSE x \in S : \A y \in S : x <= y
Max(S) == CHOOSE x \in S : \A y \in S : x >= y

\* t.split(c)[0]
SplitFirst(t, c) ==
    IF Positions(t, c) = {} THEN t ELSE SubSeq(t, 1, Min(Positions(t, c)) - 1)

\* t.split(c)[-1]
SplitLast(t, c) ==
    IF Positions(t, c) = {} THEN t
    ELSE SubSeq(t, Max(Positions(t, c)) + 1, Len(t))

\* Python's n // d (floor division, d # 0)
FloorDiv(n, d) == IF d > 0 THEN n \div d ELSE (0 - n) \div (0 - d)

\* ceil_div(n, d): -(n // -d)
ceil_div(n, d) == 0 - FloorDiv(n, 0 - d)

\* ------------------------------------------------------------ get_html, run
\* A script of the server for one get_html call: the outcomes of the first
\* session.get calls, and the outcome of every later one.
Script(first, rest) == [first |-> first, rest |-> rest]
OutcomeAt(script, k) ==
    IF k <= Len(script.first) THEN script.first[k] ELSE script.rest

Answer(code) == RespOutcome(Response(code, ErrBody))

\* The loop of get_html from loop value k on, with locals r (res) and
\* status (sc): the locals and the numbers of requests and sleeps at its end.
RECURSIVE GetHtmlLoop(_, _, _, _, _)
GetHtmlLoop(script, k, r, status, nsleep) ==
    IF k >= MAX_TRIES
    THEN [res |-> r, sc |-> status, requests |-> k, sleeps |-> nsleep]
    ELSE LET o == OutcomeAt(script, k + 1) IN
         IF o.exc THEN GetHtmlLoop(script, k + 1, r, status, nsleep)
         ELSE IF o.res.status_code = 200 \/ o.res.status_code = 400
         THEN [res |-> o.res, sc |-> o.res.status_code,
               requests |-> k + 1, sleeps |-> nsleep]
         ELSE IF o.res.status_code = 429
         THEN GetHtmlLoop(script, k + 1, o.res, 429, nsleep + 1)
         ELSE GetHtmlLoop(script, k + 1, o.res, o.res.status_code, nsleep)

\* get_html(url) against a server that follows `script`.
get_html(script) ==
    LET end == GetHtmlLoop(script, 0, NoneRes, 0, 0)
    IN  GetHtmlOutcome(end.res, end.sc)

\* Scripts on which get_html returns the document `body`.
OkScripts(body) ==
    { Script(<<>>, RespOutcome(Response(200, body))),
      Script(<<Answer(429), ExcOutcome, Answer(500)>>,
             RespOutcome(Response(200, body))) }

\* Scripts on which get_html raises: TimeoutError, BadStatusCode (400 and
\* 500) and SystemError.
FailScripts ==
    { Script(<<>>, Answer(429)),
      Script(<<Answer(429)>>, Answer(400)),
      Script(<<Answer(500)>>, ExcOutcome),
      Script(<<>>, ExcOutcome) }

\* ------------------------------------------------------------ HTML
\* An element found by find(): its text and the attribute the code reads
\* (href of the link, datetime of the time element); NoElem is find()'s None.
NoElem == [none |-> TRUE, s |-> <<>>, attr |-> PyNone]
Elem(text, attr) == [none |-> FALSE, s |-> text, attr |-> attr]

\* A response body as far as the scraper looks into it: the <li> elements,
\* the job-count <span> and the description markup <div>.
Html(li, job_count, markup) ==
    [li |-> li, job_count |-> job_count, markup |-> markup]

\* A job list entry: the five sub-elements the scraper looks for.
Entry(title, company, location, link, date) ==
    [title |-> title, company |-> company, location |-> location,
     link |-> link, date |-> date]

EntryFull ==
    Entry(Elem(<<" ", "D", "e", "v", " ">>, PyNone), Elem(<<"C", "o">>, PyNone),
          Elem(<<"A", ",", "N", "L">>, PyNone),
          Elem(<<>>, PyStr(<<"v", "/", "d", "-", "1", "?", "r">>)),
          Elem(<<>>, PyStr(<<"d", "1">>)))
EntryNoLink ==
    Entry(Elem(<<"P", "y">>, PyNone), NoElem, NoElem, NoElem,
          Elem(<<>>, PyStr(<<"d", "2">>)))
EntryOther ==
    Entry(Elem(<<"Q", "A">>, PyNone), Elem(<<"C", "o">>, PyNone), NoElem,
          Elem(<<>>, PyStr(<<"v", "/", "q", "-", "a", "-", "2">>)), NoElem)

\* The listing pages the server can send: without entries, short pages
\* (one of them repeating an entry), and a full page of N_JOBS_PER_PAGE.
FullPage == [k \in 1..N_JOBS_PER_PAGE |-> IF k % 2 = 1 THEN EntryFull ELSE EntryOther]
ListingPages ==
    { <<>>, <<EntryNoLink>>, <<EntryOther, EntryFull, EntryOther>>, FullPage }
ListingBody(li) == Html(li, NoElem, NoElem)

\* The job-count page: the count element is absent, or holds a count.
CountTexts == { <<"7">>, <<" ", "2", "5">>, <<"1", ",", "0", "0", "0", "+">> }
CountBodies ==
    {Html(<<>>, NoElem, NoElem)}
        \cup {Html(<<>>, Elem(t, PyNone), NoElem) : t \in CountTexts}

\* str.strip(chars)
RECURSIVE LStripChars(_, _)
LStripChars(t, cs) ==
    IF t # <<>> /\ Head(t) \in cs THEN LStripChars(Tail(t), cs) ELSE t
RECURSIVE RStripChars(_, _)
RStripChars(t, cs) ==
    IF t # <<>> /\ t[Len(t)] \in cs
    THEN RStripChars(SubSeq(t, 1, Len(t) - 1), cs) ELSE t
StripChars(t, cs) == RStripChars(LStripChars(t, cs), cs)

\* str.replace(c, "")
RECURSIVE Remove(_, _)
Remove(t, c) ==
    IF t = <<>> THEN <<>>
    ELSE IF Head(t) = c THEN Remove(Tail(t), c)
    ELSE <<Head(t)>> \o Remove(Tail(t), c)

DigitValue(c) ==
    CASE c = "0" -> 0 [] c = "1" -> 1 [] c = "2" -> 2 [] c = "3" -> 3
      [] c = "4" -> 4 [] c = "5" -> 5 [] c = "6" -> 6 [] c = "7" -> 7
      [] c = "8" -> 8 [] c = "9" -> 9

\* int(t) for a string of decimal digits
RECURSIVE ParseInt(_)
ParseInt(t) ==
    IF t = <<>> THEN 0
    ELSE 10 * ParseInt(SubSeq(t, 1, Len(t) - 1)) + DigitValue(t[Len(t)])

\* ------------------------------------------------------------ extraction
\* _get_html_text_and_strip
GetHtmlTextAndStrip(html) ==
    IF html.none THEN PyNone ELSE PyStr(Strip(html.s))

\* _extract_info_from_single_job_on_job_page
ExtractInfo(html_job) ==
    LET title == GetHtmlTextAndStrip(html_job.title)
        company == GetHtmlTextAndStrip(html_job.company)
        loc == GetHtmlTextAndStrip(html_job.location)
        job_location ==
            IF ~loc.none THEN PyStr(SplitFirst(loc.s, ",")) ELSE PyStr(UNKNOWN)
        link ==
            IF ~html_job.link.none
            THEN PyStr(SplitFirst(html_job.link.attr.s, "?"))
            ELSE PyStr(UNKNOWN)
        job_id ==
            IF ~link.none THEN PyStr(SplitLast(link.s, "-")) ELSE PyStr(UNKNOWN)
        date ==
            IF ~html_job.date.none THEN html_job.date.attr ELSE PyStr(UNKNOWN)
    IN  [title |-> IF ~title.none THEN title ELSE PyStr(UNKNOWN),
         company |-> IF ~company.none THEN company ELSE PyStr(UNKNOWN),
         link |-> link,
         job_id |-> job_id,
         location |-> job_location,
         date |-> date]

\* The records of the entries of one page, in entry order.
ExtractAll(jobs) == [k \in 1..Len(jobs) |-> ExtractInfo(jobs[k])]

\* ------------------------------------------------------------ DataFrame
\* A DataFrame: its columns, its index labels and its rows in index order;
\* a row holds a value for every column the model knows, read only where
\* the column is among `columns`.
JobColumns == {"title", "company", "link", "job_id", "location", "date"}

\* The values of a cell of the two verdict columns: the missing value NaN
\* a column gets where it was never assigned, None, a bool, or the string
\* UNKNOWN.
CellNaN == [kind |-> "NaN", b |-> FALSE]
CellNone == [kind |-> "None", b |-> FALSE]
CellBool(b) == [kind |-> "bool", b |-> b]
CellUnknown == [kind |-> "UNKNOWN", b |-> FALSE]

\* C.KEY_JOB_DESCRIPTION_MARKED: the column of the marked descriptions
KEY_JOB_DESCRIPTION_MARKED == "description_html_marked"

Row(job_dict) ==
    [title |-> job_dict.title, company |-> job_dict.company,
     link |-> job_dict.link, job_id |-> job_dict.job_id,
     location |-> job_dict.location, date |-> job_dict.date,
     has_job_description |-> FALSE, description_html |-> PyNone,
     keep_job_after_title_filter |-> CellNaN,
     descr_contains_keyword |-> CellNaN,
     description_html_marked |-> PyNone]

\* RangeIndex(n): the labels 0 .. n-1
RangeIndex(n) == [k \in 1..n |-> k - 1]

\* DataFrame(job_list)
DataFrame(job_list) ==
    [columns |-> IF job_list = <<>> THEN {} ELSE JobColumns,
     index |-> RangeIndex(Len(job_list)),
     rows |-> [k \in 1..Len(job_list) |-> Row(job_list[k])]]

\* df[KEY_HAS_JOB_DESCRIPTION] = False
SetHasJobDescriptionFalse(d) ==
    [d EXCEPT !.columns = @ \cup {"has_job_description"},
              !.rows = [k \in 1..Len(d.rows) |->
                           [d.rows[k] EXCEPT !.has_job_description = FALSE]]]

\* Position of index label `label` in d
Pos(d, label) == CHOOSE k \in 1..Len(d.index) : d.index[k] = label

\* d.loc[labels, :] for a sequence of labels of d, and d.loc[mask, :] for a
\* set of positions
LocLabels(d, labels) ==
    [d EXCEPT !.index = labels,
              !.rows = [k \in 1..Len(labels) |-> d.rows[Pos(d, labels[k])]]]
RECURSIVE KeepPositions(_, _, _)
KeepPositions(seq, keep, k) ==
    IF k > Len(seq) THEN <<>>
    ELSE (IF k \in keep THEN <<seq[k]>> ELSE <<>>) \o KeepPositions(seq, keep, k + 1)
LocMask(d, keep) ==
    [d EXCEPT !.index = KeepPositions(d.index, keep, 1),
              !.rows = KeepPositions(d.rows, keep, 1)]

NoDf == [columns |-> {}, index |-> <<>>, rows |-> <<>>]

\* ------------------------------------------------------------ state
VARIABLES
    pc,          \* position in get_html: idle, loop, sleep, after, done
    i,           \* loop variable of `for i in range(MAX_TRIES)`: next value
    res,         \* local res
    sc,          \* local sc (0 while unbound)
    result,      \* what the last finished call returned or raised
    calls,       \* get_html calls started on this session
    requests,    \* session.get calls issued by the current call
    sleeps,      \* sleep() calls made by the current call
    n429,        \* 429 responses received by the current call
    nResp,       \* responses (of any status) received by the current call
    first200,    \* number of the request answered by the first 200, else 0
    first400,    \* number of the request answered by the first 400, else 0
    lastOutcome, \* outcome of the latest session.get of the current call
    lastEvent,   \* latest side effect of the current call: request or sleep
    lastSleep,   \* duration of the sleep, while it is the latest event
    \* scrape_jobs
    spc,         \* position in scrape_jobs: idle, pages, return, done, raised
    page_start,  \* argument page_start
    n_jobs,      \* local n_jobs once it is a number
    page,        \* loop variable of the page loop: next value
    job_list,    \* local job_list
    df,          \* the DataFrame of jobs (returned by scrape_jobs)
    scrapeError, \* the exception scrape_jobs let through, if any
    countFetches,\* get_html calls made for the job count
    pageLog,     \* the listing page fetches made, in order
    \* get_job_descriptions
    dpc,         \* position in get_job_descriptions: idle, rows, done, raised
    index_filter,\* argument index_filter: None or the labels selected
    todo,        \* labels of df_temp that iterrows has not reached yet
    returned,    \* the DataFrame get_job_descriptions returned
    descrError,  \* the exception get_job_descriptions let through, if any
    descrCalls,  \* get_job_descriptions calls started
    descrLog,    \* the description fetches of the current call, in order
    \* filter_job_titles, filter_job_descriptions, save_job_dataframe_to_html_file
    call,        \* the latest call of one of the three and its arguments
    dfBefore,    \* df as it was passed to the latest call
    outcome,     \* what the latest call raised, returned and wrote
    folders,     \* the folders that exist
    files,       \* the paths of the files that exist
    \* _format_url_metadata
    query,       \* the arguments of the latest call
    metadata,    \* the dictionary the latest call returned
    prevQuery,   \* the arguments of the call before it
    prevMetadata,\* the dictionary the call before it returned
    \* _extract_info_from_single_job_on_job_page
    html_job,    \* argument html_job
    job_dict,    \* the dictionary returned for it
    \* determine_n_jobs
    n_jobs_found, \* what the last determine_n_jobs call returned or raised
    \* LinkedinSession life cycle
    session,      \* self.session: 0 for None, else the number of the Session
    openSessions, \* the Session objects that hold open connections
    nCreated,     \* Session objects created so far
    sessionLog,   \* the calls made on the object, in order
    \* MainWindow
    buttons,      \* names of the buttons that are enabled
    last_button_states, \* self._last_button_states
    worker,       \* self.worker: 0 for None, else the number of the Worker
    threads,      \* the Worker threads created so far
    results,      \* result signals emitted and not yet delivered to a slot
    testing,      \* the GUI thread is inside session.test_session()
    pd            \* the progress dialog of "Fetch jobs" is shown

httpVars == <<pc, i, res, sc, result, calls, requests, sleeps, n429, nResp,
              first200, first400, lastOutcome, lastEvent, lastSleep>>
crawlVars == <<spc, page_start, n_jobs, page, job_list, scrapeError,
               countFetches, pageLog>>
descrVars == <<dpc, index_filter, todo, returned, descrError, descrCalls,
               descrLog>>
\* what the steps of get_html, of scrape_jobs and of get_job_descriptions
\* leave alone
postVars == <<call, dfBefore, outcome, folders, files>>
queryVars == <<query, metadata, prevQuery, prevMetadata>>
sessVars == <<session, openSessions, nCreated, sessionLog>>
guiVars == <<buttons, last_button_states, worker, threads, results, testing, pd>>
extraVars == <<html_job, job_dict, n_jobs_found, sessVars, guiVars>>
otherVars == <<crawlVars, df, descrVars, postVars, queryVars, extraVars>>
outsideCrawl == <<httpVars, descrVars, postVars, queryVars, extraVars>>
outsideDescr == <<httpVars, crawlVars, postVars, queryVars, extraVars>>
outsidePost == <<httpVars, crawlVars, descrVars, extraVars>>
outsideQuery == <<httpVars, crawlVars, df, descrVars, postVars, extraVars>>
vars == <<httpVars, crawlVars, df, descrVars, postVars, queryVars, extraVars>>

InitCrawl ==
    /\ spc = "idle"
    /\ page_start = 0
    /\ n_jobs = 0
    /\ page = 0
    /\ job_list = <<>>
    /\ scrapeError = NoResult
    /\ countFetches = 0
    /\ pageLog = <<>>

\* Optional[pandas.Index] None
NoIndex == [none |-> TRUE, labels |-> <<>>]
Index(labels) == [none |-> FALSE, labels |-> labels]

InitDescr ==
    /\ dpc = "idle"
    /\ index_filter = NoIndex
    /\ todo = <<>>
    /\ returned = NoDf
    /\ descrError = NoResult
    /\ descrCalls = 0
    /\ descrLog = <<>>

InitHttp ==
    /\ pc = "idle"
    /\ i = 0
    /\ res = NoneRes
    /\ sc = 0
    /\ result = NoResult
    /\ calls = 0
    /\ requests = 0
    /\ sleeps = 0
    /\ n429 = 0
    /\ nResp = 0
    /\ first200 = 0
    /\ first400 = 0
    /\ lastOutcome = NoOutcome
    /\ lastEvent = "none"
    /\ lastSleep = 0

\* Optional[Iterable[str]] None, and a list of keywords
NoKeywords == [none |-> TRUE, list |-> <<>>]
Keywords(list) == [none |-> FALSE, list |-> list]

\* No call of the three functions yet, nothing raised, returned or written,
\* no folder and no file.
NoCall ==
    [fn |-> "none", keywords_always_keep |-> NoKeywords,
     keywords_keep |-> NoKeywords, keywords_discard |-> NoKeywords,
     keywords |-> <<>>, mark_keywords |-> FALSE, index_filter |-> NoIndex,
     filename |-> PyNone, folder |-> "", use_marked_descriptions |-> FALSE]
NoOutcomeYet == [raised |-> "", frame |-> NoDf, written |-> <<>>]
InitPost ==
    /\ call = NoCall
    /\ dfBefore = NoDf
    /\ outcome = NoOutcomeYet
    /\ folders = {}
    /\ files = {}

\* No call of _format_url_metadata yet.
NoQuery ==
    [keywords |-> <<>>, n_days |-> 0, location |-> <<>>, geo_id |-> <<>>,
     work_location |-> <<>>]
NoMetadata ==
    [n_seconds |-> 0, work_location |-> <<>>, keywords |-> <<>>,
     location |-> <<>>, geo_id |-> <<>>]
InitQuery ==
    /\ query = NoQuery
    /\ metadata = NoMetadata
    /\ prevQuery = NoQuery
    /\ prevMetadata = NoMetadata

\* No entry has been extracted yet.
NoJob ==
    [title |-> PyNone, company |-> PyNone, link |-> PyNone,
     job_id |-> PyNone, location |-> PyNone, date |-> PyNone]
NotDetermined == [raised |-> NoResult, n |-> -1]
\* MainWindow.BUTTON_GROUPS
BUTTON_GROUPS(group) ==
    LET AFTER_INIT == {"test_session", "get_n_jobs", "scrape_jobs"}
        AFTER_SCRAPE == AFTER_INIT \cup {"filter_job_titles", "get_job_descriptions",
                                         "save_results", "reset_table_view"}
    IN  CASE group = "AFTER_INIT" -> AFTER_INIT
          [] group = "AFTER_SCRAPE" -> AFTER_SCRAPE
          [] group = "AFTER_JOB_DESCR" -> AFTER_SCRAPE \cup {"filter_job_descriptions"}
          [] group = "WHILE_ACTION" -> {"stop_worker"}
\* MainWindow after __init__: the buttons created enabled are those of
\* AFTER_INIT.
InitGui ==
    /\ buttons = {"test_session", "get_n_jobs", "scrape_jobs"}
    /\ last_button_states = "AFTER_INIT"
    /\ worker = 0
    /\ threads = <<>>
    /\ results = <<>>
    /\ testing = FALSE
    /\ pd = FALSE
\* Before LinkedinSession.__init__ has run.
InitSession ==
    /\ session = 0
    /\ openSessions = {}
    /\ nCreated = 0
    /\ sessionLog = <<>>
InitExtra ==
    /\ html_job = EntryFull
    /\ job_dict = NoJob
    /\ n_jobs_found = NotDetermined
    /\ InitSession
    /\ InitGui

Init ==
    /\ InitHttp /\ InitCrawl /\ df = NoDf /\ InitDescr /\ InitPost /\ InitQuery
    /\ InitExtra

\* ------------------------------------------------------------ get_html
\* Entry of get_html: res = None, the loop starts at i = 0.
CallGetHtml ==
    /\ pc \in {"idle", "done"}
    /\ calls < MaxCalls
    /\ calls' = calls + 1
    /\ pc' = "loop"
    /\ i' = 0
    /\ res' = NoneRes
    /\ sc' = 0
    /\ requests' = 0
    /\ sleeps' = 0
    /\ n429' = 0
    /\ nResp' = 0
    /\ first200' = 0
    /\ first400' = 0
    /\ lastOutcome' = NoOutcome
    /\ lastEvent' = "none"
    /\ lastSleep' = 0
    /\ UNCHANGED result
    /\ UNCHANGED otherVars

\* Bookkeeping of one session.get call that delivered outcome o.
Requested(o) ==
    /\ requests' = requests + 1
    /\ lastOutcome' = o
    /\ lastEvent' = "request"
    /\ lastSleep' = 0
    /\ nResp' = IF o.exc THEN nResp ELSE nResp + 1
    /\ n429' = IF ~o.exc /\ o.res.status_code = 429 THEN n429 + 1 ELSE n429
    /\ first200' = IF ~o.exc /\ o.res.status_code = 200 /\ first200 = 0
                   THEN requests + 1 ELSE first200
    /\ first400' = IF ~o.exc /\ o.res.status_code = 400 /\ first400 = 0
                   THEN requests + 1 ELSE first400

\* Mutant: an exception does not use up an attempt.
AttemptException_FreeRetry ==
    /\ pc = "loop" /\ i < MAX_TRIES
    /\ Requested(ExcOutcome)
    /\ i' = i
    /\ pc' = "loop"
    /\ UNCHANGED <<res, sc, result, calls, sleeps>>
    /\ UNCHANGED otherVars

\* Mutant: an exception makes the call forget the response it had.
AttemptException_ClearsRes ==
    /\ pc = "loop" /\ i < MAX_TRIES
    /\ Requested(ExcOutcome)
    /\ i' = i + 1
    /\ pc' = "loop"
    /\ res' = NoneRes
    /\ sc' = 0
    /\ UNCHANGED <<result, calls, sleeps>>
    /\ UNCHANGED otherVars

\* session.get raises: `continue`, res and sc keep their values.
AttemptException ==
    /\ pc = "loop" /\ i < MAX_TRIES
    /\ Requested(ExcOutcome)
    /\ i' = i + 1
    /\ pc' = "loop"
    /\ UNCHANGED <<res, sc, result, calls, sleeps>>
    /\ UNCHANGED otherVars

\* Mutant: no break on 200.
Attempt200_NoBreak ==
    /\ pc = "loop" /\ i < MAX_TRIES
    /\ \E body \in Bodies :
          /\ Requested(RespOutcome(Response(200, body)))
          /\ res' = Response(200, body)
    /\ sc' = 200
    /\ i' = i + 1
    /\ pc' = "loop"
    /\ UNCHANGED <<result, calls, sleeps>>
    /\ UNCHANGED otherVars

\* status 200: break.
Attempt200 ==
    /\ pc = "loop" /\ i < MAX_TRIES
    /\ \E body \in Bodies :
          /\ Requested(RespOutcome(Response(200, body)))
          /\ res' = Response(200, body)
    /\ sc' = 200
    /\ i' = i + 1
    /\ pc' = "after"
    /\ UNCHANGED <<result, calls, sleeps>>
    /\ UNCHANGED otherVars

\* status 429: the sleep follows.
Attempt429 ==
    /\ pc = "loop" /\ i < MAX_TRIES
    /\ Requested(RespOutcome(Response(429, ErrBody)))
    /\ res' = Response(429, ErrBody)
    /\ sc' = 429
    /\ i' = i + 1
    /\ pc' = "sleep"
    /\ UNCHANGED <<result, calls, sleeps>>
    /\ UNCHANGED otherVars

\* sleep(uniform(MIN_TIMEOUT_ON_429, MAX_TIMEOUT_ON_429)), then the next
\* iteration of the loop (if there is one).
Sleep429 ==
    /\ pc = "sleep"
    /\ \E d \in MIN_TIMEOUT_ON_429..MAX_TIMEOUT_ON_429 : lastSleep' = d
    /\ sleeps' = sleeps + 1
    /\ lastEvent' = "sleep"
    /\ pc' = "loop"
    /\ UNCHANGED <<i, res, sc, result, calls, requests, n429, nResp,
                   first200, first400, lastOutcome>>
    /\ UNCHANGED otherVars

\* Mutant: 400 is retried like the other bad status codes.
Attempt400_NoBreak ==
    /\ pc = "loop" /\ i < MAX_TRIES
    /\ Requested(RespOutcome(Response(400, ErrBody)))
    /\ res' = Response(400, ErrBody)
    /\ sc' = 400
    /\ i' = i + 1
    /\ pc' = "loop"
    /\ UNCHANGED <<result, calls, sleeps>>
    /\ UNCHANGED otherVars

\* status 400: break.
Attempt400 ==
    /\ pc = "loop" /\ i < MAX_TRIES
    /\ Requested(RespOutcome(Response(400, ErrBody)))
    /\ res' = Response(400, ErrBody)
    /\ sc' = 400
    /\ i' = i + 1
    /\ pc' = "after"
    /\ UNCHANGED <<result, calls, sleeps>>
    /\ UNCHANGED otherVars

\* any other status: logged, next iteration.
AttemptOther ==
    /\ pc = "loop" /\ i < MAX_TRIES
    /\ \E code \in OtherStatusCodes :
          /\ Requested(RespOutcome(Response(code, ErrBody)))
          /\ res' = Response(code, ErrBody)
          /\ sc' = code
    /\ i' = i + 1
    /\ pc' = "loop"
    /\ UNCHANGED <<result, calls, sleeps>>
    /\ UNCHANGED otherVars

\* range(MAX_TRIES) is exhausted: the loop ends without a break.
LoopExhausted ==
    /\ pc = "loop" /\ i = MAX_TRIES
    /\ pc' = "after"
    /\ UNCHANGED <<i, res, sc, result, calls, requests, sleeps, n429, nResp,
                   first200, first400, lastOutcome, lastEvent, lastSleep>>
    /\ UNCHANGED otherVars

\* The code after the loop: raise or return.
GetHtmlEnd ==
    /\ pc = "after"
    /\ result' = GetHtmlOutcome(res, sc)
    /\ pc' = "done"
    /\ UNCHANGED <<i, res, sc, calls, requests, sleeps, n429, nResp,
                   first200, first400, lastOutcome, lastEvent, lastSleep>>
    /\ UNCHANGED otherVars

Next ==
    \/ CallGetHtml
    \/ AttemptException
    \/ Attempt200
    \/ Attempt429
    \/ Sleep429
    \/ Attempt400
    \/ AttemptOther
    \/ LoopExhausted
    \/ GetHtmlEnd

Spec == Init /\ [][Next]_vars

\* ============================================================ scrape_jobs
\* C.URL_JOB_PAGE.format(start=..., **metadata) and C.URL_FOR_N_JOBS
JobPageUrl(start) == [endpoint |-> "seeMoreJobPostings", start |-> start]

\* The bodies the server can answer a listing page request with.
PageBodies(url) ==
    IF url.start >= MaxServerPages * N_JOBS_PER_PAGE
    THEN {ListingBody(<<>>)}
    ELSE {ListingBody(li) : li \in ListingPages}

PageScripts(url) ==
    FailScripts \cup UNION {OkScripts(b) : b \in PageBodies(url)}
CountScripts == FailScripts \cup UNION {OkScripts(b) : b \in CountBodies}

\* Optional[int] None
NoneInt == -1

\* determine_n_jobs on the fetched count page
determine_n_jobs(html) ==
    LET html_n_jobs == html.tree.job_count
    IN  IF html_n_jobs.none THEN NoneInt
        ELSE ParseInt(Remove(StripChars(html_n_jobs.s, {"+", " "}), ","))

\* _get_job_page: the document, or None when get_html raised
GetJobPage(script) ==
    LET r == get_html(script)
    IN  IF r.kind \in {"TimeoutError", "BadStatusCode", "SystemError"}
        THEN [none |-> TRUE, tree |-> ListingBody(<<>>), error |-> r]
        ELSE [none |-> FALSE, tree |-> r.doc.tree, error |-> NoResult]

PageEntry(p, url, html) ==
    [page |-> p, url |-> url, ok |-> ~html.none,
     li |-> IF html.none THEN <<>> ELSE html.tree.li]

\* scrape_jobs entered with a number for n_jobs: up to the loop.
ScrapeJobsCall ==
    /\ spc = "idle"
    /\ \E ps \in 0..MaxPageStart, nj \in 0..MaxNJobs :
          /\ page_start' = ps
          /\ n_jobs' = nj
          /\ page' = ps
    /\ job_list' = <<>>
    /\ spc' = "pages"
    /\ UNCHANGED <<df, scrapeError, countFetches, pageLog>>
    /\ UNCHANGED outsideCrawl

\* scrape_jobs entered with n_jobs = None: the call
\* self.determine_n_jobs(**metadata) passes the keyword n_seconds of the
\* formatted metadata, which determine_n_jobs does not accept, so Python
\* raises TypeError before determine_n_jobs runs; nothing catches it.
ScrapeJobsNoNJobs ==
    /\ spc = "idle"
    /\ \E ps \in 0..MaxPageStart : page_start' = ps
    /\ n_jobs' = NoneInt
    /\ scrapeError' = TypeError
    /\ spc' = "raised"
    /\ UNCHANGED <<page, job_list, df, countFetches, pageLog>>
    /\ UNCHANGED outsideCrawl

\* determine_n_jobs called on its own with the search settings (as the
\* "Get number of jobs" worker does): one get_html call, whose exception
\* propagates, else the count or None.
DetermineNJobs ==
    /\ spc = "idle"
    /\ \E script \in CountScripts :
          LET r == get_html(script) IN
          n_jobs_found' = IF r.kind = "ok"
                          THEN [raised |-> NoResult, n |-> determine_n_jobs(r.doc)]
                          ELSE [raised |-> r, n |-> NoneInt]
    /\ UNCHANGED <<crawlVars, df, httpVars, descrVars, postVars, queryVars,
                   html_job, job_dict, sessVars, guiVars>>

\* Mutant: the loop runs one page past ceil_div(n_jobs, N_JOBS_PER_PAGE).
InPageLoop_OnePast == spc = "pages" /\ page <= ceil_div(n_jobs, N_JOBS_PER_PAGE)
\* for page in range(page_start, ceil_div(n_jobs, self.N_JOBS_PER_PAGE))
InPageLoop == spc = "pages" /\ page < ceil_div(n_jobs, N_JOBS_PER_PAGE)

\* Mutant: a page that could not be fetched is skipped (continue).
ScrapePageFails_Continue ==
    /\ InPageLoop
    /\ LET url == JobPageUrl(page * N_JOBS_PER_PAGE) IN
       \E script \in PageScripts(url) :
          LET html == GetJobPage(script) IN
          /\ html.none
          /\ pageLog' = Append(pageLog, PageEntry(page, url, html))
    /\ page' = page + 1
    /\ UNCHANGED <<spc, page_start, n_jobs, job_list, df, scrapeError,
                   countFetches>>
    /\ UNCHANGED outsideCrawl

\* One iteration: the page could not be fetched, break.
ScrapePageFails ==
    /\ InPageLoop
    /\ LET url == JobPageUrl(page * N_JOBS_PER_PAGE) IN
       \E script \in PageScripts(url) :
          LET html == GetJobPage(script) IN
          /\ html.none
          /\ pageLog' = Append(pageLog, PageEntry(page, url, html))
    /\ spc' = "return"
    /\ UNCHANGED <<page_start, n_jobs, page, job_list, df, scrapeError,
                   countFetches>>
    /\ UNCHANGED outsideCrawl

\* One iteration: the page has no <li>, continue.
ScrapePageEmpty ==
    /\ InPageLoop
    /\ LET url == JobPageUrl(page * N_JOBS_PER_PAGE) IN
       \E script \in PageScripts(url) :
          LET html == GetJobPage(script) IN
          /\ ~html.none
          /\ Len(html.tree.li) = 0
          /\ pageLog' = Append(pageLog, PageEntry(page, url, html))
    /\ page' = page + 1
    /\ UNCHANGED <<spc, page_start, n_jobs, job_list, df, scrapeError,
                   countFetches>>
    /\ UNCHANGED outsideCrawl

\* Mutant: the records of a page replace the list instead of extending it.
ScrapePageJobs_Overwrite ==
    /\ InPageLoop
    /\ LET url == JobPageUrl(page * N_JOBS_PER_PAGE) IN
       \E script \in PageScripts(url) :
          LET html == GetJobPage(script) IN
          /\ ~html.none
          /\ Len(html.tree.li) > 0
          /\ job_list' = ExtractAll(html.tree.li)
          /\ pageLog' = Append(pageLog, PageEntry(page, url, html))
    /\ page' = page + 1
    /\ UNCHANGED <<spc, page_start, n_jobs, df, scrapeError, countFetches>>
    /\ UNCHANGED outsideCrawl

\* One iteration: every <li> of the page is extracted and appended.
ScrapePageJobs ==
    /\ InPageLoop
    /\ LET url == JobPageUrl(page * N_JOBS_PER_PAGE) IN
       \E script \in PageScripts(url) :
          LET html == GetJobPage(script) IN
          /\ ~html.none
          /\ Len(html.tree.li) > 0
          /\ job_list' = job_list \o ExtractAll(html.tree.li)
          /\ pageLog' = Append(pageLog, PageEntry(page, url, html))
    /\ page' = page + 1
    /\ UNCHANGED <<spc, page_start, n_jobs, df, scrapeError, countFetches>>
    /\ UNCHANGED outsideCrawl

\* After the loop (range exhausted or break): the DataFrame is built and
\* returned.
ScrapeJobsReturn ==
    /\ \/ spc = "return"
       \/ spc = "pages" /\ page >= ceil_div(n_jobs, N_JOBS_PER_PAGE)
    /\ df' = SetHasJobDescriptionFalse(DataFrame(job_list))
    /\ spc' = "done"
    /\ UNCHANGED <<page_start, n_jobs, page, job_list, scrapeError,
                   countFetches, pageLog>>
    /\ UNCHANGED outsideCrawl

NextScrape ==
    \/ ScrapeJobsCall
    \/ ScrapeJobsNoNJobs
    \/ DetermineNJobs
    \/ ScrapePageFails
    \/ ScrapePageEmpty
    \/ ScrapePageJobs
    \/ ScrapeJobsReturn

SpecScrape == Init /\ [][NextScrape]_vars

\* ============================================================ get_job_descriptions
\* bs4's prettify(): the element with its tags, its text on a line of its own
Prettify(elem) ==
    <<"<", "d", "i", "v", ">", "\n">> \o Strip(elem.s)
        \o <<"\n", "<", "/", "d", "i", "v", ">">>

\* The job posting pages the server can send: without the description
\* markup, or with one of two descriptions.
DescrTexts == { <<" ", "P", "y", " ">>, <<"j", "s">> }
DescrBodies ==
    {Html(<<>>, NoElem, NoElem)}
        \cup {Html(<<>>, NoElem, Elem(t, PyNone)) : t \in DescrTexts}
DescrScripts == FailScripts \cup UNION {OkScripts(b) : b \in DescrBodies}

\* C.URL_SINGLE_JOB.format(job_id=job_id)
SingleJobUrl(job_id) == [endpoint |-> "jobPosting", job_id |-> job_id]

\* get_html_job_description: the description element or None; TimeoutError
\* and BadStatusCode are caught, any other exception of get_html is not.
get_html_job_description(script) ==
    LET r == get_html(script)
    IN  IF r.kind \in {"TimeoutError", "BadStatusCode"}
        THEN [raised |-> FALSE, error |-> NoResult, descr |-> NoElem,
              kind |-> r.kind]
        ELSE IF r.kind # "ok"
        THEN [raised |-> TRUE, error |-> r, descr |-> NoElem, kind |-> r.kind]
        ELSE [raised |-> FALSE, error |-> NoResult, descr |-> r.doc.tree.markup,
              kind |-> IF r.doc.tree.markup.none THEN "missing" ELSE "found"]

\* df.loc[row_id, KEY_JOB_DESCRIPTION] = value
SetDescription(d, row_id, value) ==
    [d EXCEPT !.rows[Pos(d, row_id)].description_html = value]

\* The index filters a caller can pass for d: None, or labels of d.
IndexFilters(d) ==
    {NoIndex} \cup
        {Index(KeepPositions(d.index, S, 1)) : S \in SUBSET (1..Len(d.index))}

\* get_job_descriptions up to its loop: df_temp is selected and the
\* description column is created if the frame does not have it.
GetJobDescriptionsCall ==
    /\ dpc \in {"idle", "done"}
    /\ descrCalls < MaxDescrCalls
    /\ descrCalls' = descrCalls + 1
    /\ \E f \in IndexFilters(df) :
          /\ index_filter' = f
          /\ todo' = IF f.none THEN df.index ELSE LocLabels(df, f.labels).index
    /\ df' = IF "description_html" \in df.columns THEN df
             ELSE [df EXCEPT
                     !.columns = @ \cup {"description_html"},
                     !.rows = [k \in 1..Len(df.rows) |->
                                 [df.rows[k] EXCEPT !.description_html = PyNone]]]
    /\ descrLog' = <<>>
    /\ dpc' = "rows"
    /\ UNCHANGED <<returned, descrError>>
    /\ UNCHANGED outsideDescr

DescrLogEntry(row_id, got) ==
    [row_id |-> row_id,
     url |-> SingleJobUrl(df.rows[Pos(df, row_id)].job_id),
     kind |-> got.kind]

\* One row of df_temp: the description was found and is stored prettified.
DescrFound ==
    /\ dpc = "rows" /\ todo # <<>>
    /\ \E script \in DescrScripts :
          LET got == get_html_job_description(script) IN
          /\ ~got.raised /\ ~got.descr.none
          /\ df' = SetDescription(df, Head(todo), PyStr(Prettify(got.descr)))
          /\ descrLog' = Append(descrLog, DescrLogEntry(Head(todo), got))
    /\ todo' = Tail(todo)
    /\ UNCHANGED <<dpc, index_filter, returned, descrError, descrCalls>>
    /\ UNCHANGED outsideDescr

\* One row of df_temp: get_html_job_description returned None, UNKNOWN is
\* stored.
DescrUnknown ==
    /\ dpc = "rows" /\ todo # <<>>
    /\ \E script \in DescrScripts :
          LET got == get_html_job_description(script) IN
          /\ ~got.raised /\ got.descr.none
          /\ df' = SetDescription(df, Head(todo), PyStr(UNKNOWN))
          /\ descrLog' = Append(descrLog, DescrLogEntry(Head(todo), got))
    /\ todo' = Tail(todo)
    /\ UNCHANGED <<dpc, index_filter, returned, descrError, descrCalls>>
    /\ UNCHANGED outsideDescr

\* One row of df_temp: get_html_job_description raised, and so does
\* get_job_descriptions.
DescrRaises ==
    /\ dpc = "rows" /\ todo # <<>>
    /\ \E script \in DescrScripts :
          LET got == get_html_job_description(script) IN
          /\ got.raised
          /\ descrError' = got.error
          /\ descrLog' = Append(descrLog, DescrLogEntry(Head(todo), got))
    /\ dpc' = "raised"
    /\ UNCHANGED <<df, index_filter, todo, returned, descrCalls>>
    /\ UNCHANGED outsideDescr

\* After the loop: has_job_description is recomputed and the rows that have
\* it are returned.
GetJobDescriptionsReturn ==
    /\ dpc = "rows" /\ todo = <<>>
    /\ LET marked ==
             [df EXCEPT
                !.columns = @ \cup {"has_job_description"},
                !.rows = [k \in 1..Len(df.rows) |->
                            [df.rows[k] EXCEPT !.has_job_description =
                                ~df.rows[k].description_html.none]]]
       IN  /\ df' = marked
           /\ returned' = LocMask(marked,
                 {k \in 1..Len(marked.rows) : marked.rows[k].has_job_description})
    /\ dpc' = "done"
    /\ UNCHANGED <<index_filter, todo, descrError, descrCalls, descrLog>>
    /\ UNCHANGED outsideDescr

\* The frames scrape_jobs returns for a crawl of one listing page.
ScrapedFrames ==
    { SetHasJobDescriptionFalse(DataFrame(ExtractAll(li))) :
        li \in {l \in ListingPages : Len(l) <= MaxRows} }

InitGetDescriptions ==
    /\ InitHttp /\ InitCrawl /\ InitDescr /\ InitPost /\ InitQuery /\ InitExtra
    /\ df \in ScrapedFrames

NextDescr ==
    \/ GetJobDescriptionsCall
    \/ DescrFound
    \/ DescrUnknown
    \/ DescrRaises
    \/ GetJobDescriptionsReturn

SpecDescr == InitGetDescriptions /\ [][NextDescr]_vars

\* ============================================================ filter_job_titles
\* str.lower() and str.upper() on the letters
UpperLetters ==
    <<"A", "B", "C", "D", "E", "F", "G", "H", "I", "J", "K", "L", "M",
      "N", "O", "P", "Q", "R", "S", "T", "U", "V", "W", "X", "Y", "Z">>
LowerLetters ==
    <<"a", "b", "c", "d", "e", "f", "g", "h", "i", "j", "k", "l", "m",
      "n", "o", "p", "q", "r", "s", "t", "u", "v", "w", "x", "y", "z">>
LowerChar(c) ==
    IF \E k \in 1..Len(UpperLetters) : UpperLetters[k] = c
    THEN LowerLetters[CHOOSE k \in 1..Len(UpperLetters) : UpperLetters[k] = c]
    ELSE c
UpperChar(c) ==
    IF \E k \in 1..Len(LowerLetters) : LowerLetters[k] = c
    THEN UpperLetters[CHOOSE k \in 1..Len(LowerLetters) : LowerLetters[k] = c]
    ELSE c
Lower(t) == [k \in 1..Len(t) |-> LowerChar(t[k])]

\* `sub in t` of two strings
In(sub, t) ==
    \E p \in 0..(Len(t) - Len(sub)) :
        \A j \in 1..Len(sub) : t[p + j] = sub[j]

\* contains_keywords(string, keywords)
contains_keywords(string, keywords) ==
    LET lowered == Lower(string)
    IN  \E k \in 1..Len(keywords) : In(Lower(keywords[k]), lowered)

\* The labels an index filter selects in d
Selected(d, idx) == IF idx.none THEN d.index ELSE idx.labels
Range(seq) == {seq[k] : k \in 1..Len(seq)}

\* i[type_] for one title: the default, or contains_keywords of the title
TitleContains(title, keywords, default) ==
    IF keywords.none THEN default ELSE contains_keywords(title.s, keywords.list)

\* i["always_keep"] | (i["keep"] & ~i["discard"]) for one title, with the
\* defaults of the dictionary i: always_keep False, keep True, discard False
KeepTitle_KeepDefaultFalse(title, always_keep, keep, discard) ==
    \/ TitleContains(title, always_keep, FALSE)
    \/ /\ TitleContains(title, keep, FALSE)
       /\ ~TitleContains(title, discard, FALSE)
KeepTitle(title, always_keep, keep, discard) ==
    \/ TitleContains(title, always_keep, FALSE)
    \/ /\ TitleContains(title, keep, TRUE)
       /\ ~TitleContains(title, discard, FALSE)

\* df.loc[index_filter, C.KEY_KEEP_JOB_AFTER_TITLE_FILTER] = verdicts: the
\* column is added if the frame lacks it, the rows outside index_filter
\* keep what they hold (NaN in an added column).
SetTitleVerdicts_All(d, labels, always_keep, keep, discard) ==
    [d EXCEPT
        !.columns = @ \cup {"keep_job_after_title_filter"},
        !.rows = [k \in 1..Len(d.rows) |->
            [d.rows[k] EXCEPT !.keep_job_after_title_filter =
                CellBool(KeepTitle(d.rows[k].title, always_keep, keep, discard))]]]
SetTitleVerdicts(d, labels, always_keep, keep, discard) ==
    [d EXCEPT
        !.columns = @ \cup {"keep_job_after_title_filter"},
        !.rows = [k \in 1..Len(d.rows) |->
            IF d.index[k] \in Range(labels)
            THEN [d.rows[k] EXCEPT !.keep_job_after_title_filter =
                    CellBool(KeepTitle(d.rows[k].title, always_keep, keep, discard))]
            ELSE d.rows[k]]]

\* filter_job_titles(df, keywords_always_keep, keywords_keep,
\* keywords_discard, index_filter): the frame it leaves, what it raises and
\* what it returns. The return, df[df[column]], takes the rows holding
\* True; a column holding a missing value cannot be used as a mask and
\* raises ValueError.
filter_job_titles(d, always_keep, keep, discard, idx) ==
    IF always_keep.none /\ keep.none /\ discard.none
    THEN [df |-> d, raised |-> "AssertionError", frame |-> NoDf]
    ELSE LET d2 == SetTitleVerdicts(d, Selected(d, idx),
                                    always_keep, keep, discard)
         IN  IF \E k \in 1..Len(d2.rows) :
                    d2.rows[k].keep_job_after_title_filter.kind # "bool"
             THEN [df |-> d2, raised |-> "ValueError", frame |-> NoDf]
             ELSE [df |-> d2, raised |-> "",
                   frame |-> LocMask(d2, {k \in 1..Len(d2.rows) :
                       d2.rows[k].keep_job_after_title_filter = CellBool(TRUE)})]

\* ============================================================ filter_job_descriptions
\* re.subn(pattern=keyword, ..., flags=IGNORECASE): the keyword is compiled
\* as a regular expression. Of the syntax, the model has the literal
\* characters, "." (any character but a newline) and "(", which without a
\* closing parenthesis makes compilation raise re.error.
RegexError(pattern) == "(" \in Range(pattern)
CharMatches(p, c) ==
    IF p = "." THEN c # "\n" ELSE LowerChar(p) = LowerChar(c)
MatchAt(pattern, t, pos) ==
    /\ pos + Len(pattern) - 1 <= Len(t)
    /\ \A j \in 1..Len(pattern) : CharMatches(pattern[j], t[pos + j - 1])

\* re.subn for a non-empty pattern: the leftmost non-overlapping matches
\* are replaced by repl; the new string and the number of matches
RECURSIVE Subn(_, _, _, _)
Subn(pattern, repl, t, pos) ==
    IF pos > Len(t) THEN [string |-> <<>>, count |-> 0]
    ELSE IF MatchAt(pattern, t, pos)
         THEN LET r == Subn(pattern, repl, t, pos + Len(pattern))
              IN  [string |-> repl \o r.string, count |-> r.count + 1]
         ELSE LET r == Subn(pattern, repl, t, pos + 1)
              IN  [string |-> <<t[pos]>> \o r.string, count |-> r.count]

\* str.capitalize()
Capitalize(t) ==
    [k \in 1..Len(t) |-> IF k = 1 THEN UpperChar(t[k]) ELSE LowerChar(t[k])]

\* C.HTML_KEYWORD_MARK.format(keyword=keyword)
HTML_KEYWORD_MARK(keyword) ==
    <<"<", "m", "a", "r", "k", ">">> \o keyword
        \o <<"<", "/", "m", "a", "r", "k", ">">>

\* mark_keywords_html(string, keywords): the loop from keyword k on
RECURSIVE MarkLoop(_, _, _, _)
MarkLoop(string_marked, contains_keyword, keywords, k) ==
    IF k > Len(keywords)
    THEN [raised |-> "", contains_keyword |-> contains_keyword,
          string_marked |-> string_marked]
    ELSE IF RegexError(keywords[k])
         THEN [raised |-> "re.error", contains_keyword |-> contains_keyword,
               string_marked |-> string_marked]
         ELSE LET r == Subn(keywords[k],
                            HTML_KEYWORD_MARK(Capitalize(keywords[k])),
                            string_marked, 1)
              IN  MarkLoop(r.string, contains_keyword \/ r.count > 0,
                           keywords, k + 1)
mark_keywords_html(string, keywords) == MarkLoop(string, FALSE, keywords, 1)

\* df[C.KEY_DESCR_CONTAINS_KEYWORD] = None and
\* df[C.KEY_JOB_DESCRIPTION_MARKED] = None
ResetDescriptionVerdicts_AddOnly(d) ==
    [d EXCEPT
        !.columns = @ \cup {"descr_contains_keyword", KEY_JOB_DESCRIPTION_MARKED}]
ResetDescriptionVerdicts(d) ==
    [d EXCEPT
        !.columns = @ \cup {"descr_contains_keyword", KEY_JOB_DESCRIPTION_MARKED},
        !.rows = [k \in 1..Len(d.rows) |->
            [d.rows[k] EXCEPT !.descr_contains_keyword = CellNone,
                              !.description_html_marked = PyNone]]]

\* The loop over df_temp.iterrows() from the k-th label on: the frame it
\* leaves and what it raised
RECURSIVE DescriptionRows(_, _, _, _, _)
DescriptionRows(d, labels, k, keywords, mark_keywords_arg) ==
    IF k > Len(labels) THEN [df |-> d, raised |-> ""]
    ELSE LET p == Pos(d, labels[k])
             descr == d.rows[p].description_html
         IN  IF descr = PyNone
             THEN DescriptionRows(d, labels, k + 1, keywords, mark_keywords_arg)
             ELSE IF descr.s # UNKNOWN
             THEN IF mark_keywords_arg
                  THEN LET m == mark_keywords_html(descr.s, keywords)
                       IN  IF m.raised # ""
                           THEN [df |-> d, raised |-> m.raised]
                           ELSE DescriptionRows(
                                  [d EXCEPT
                                     !.rows[p].description_html_marked =
                                         PyStr(m.string_marked),
                                     !.rows[p].descr_contains_keyword =
                                         CellBool(m.contains_keyword)],
                                  labels, k + 1, keywords, mark_keywords_arg)
                  ELSE DescriptionRows(
                         [d EXCEPT !.rows[p].descr_contains_keyword =
                             CellBool(contains_keywords(Lower(descr.s), keywords))],
                         labels, k + 1, keywords, mark_keywords_arg)
             ELSE DescriptionRows(
                    [d EXCEPT !.rows[p].descr_contains_keyword = CellUnknown],
                    labels, k + 1, keywords, mark_keywords_arg)

\* filter_job_descriptions(df, keywords, index_filter, mark_keywords): the
\* frame it leaves, what it raises and what it returns, the rows of
\* df[df[C.KEY_DESCR_CONTAINS_KEYWORD].isin([True, C.UNKNOWN])]
filter_job_descriptions(d, keywords, idx, mark_keywords_arg) ==
    IF "description_html" \notin d.columns
    THEN [df |-> d, raised |-> "AssertionError", frame |-> NoDf]
    ELSE LET r == DescriptionRows(ResetDescriptionVerdicts(d), Selected(d, idx),
                                  1, keywords, mark_keywords_arg)
         IN  IF r.raised # ""
             THEN [df |-> r.df, raised |-> r.raised, frame |-> NoDf]
             ELSE [df |-> r.df, raised |-> "",
                   frame |-> LocMask(r.df, {k \in 1..Len(r.df.rows) :
                       r.df.rows[k].descr_contains_keyword
                           \in {CellBool(TRUE), CellUnknown}})]

\* ============================================================ _format_url_metadata
\* class WL(Enum): the members in definition order, and their values
WL == <<"ON_SITE", "REMOTE", "HYBRID">>
WLValue(wl) ==
    CASE wl = "ON_SITE" -> "1"
      [] wl = "REMOTE" -> "2"
      [] wl = "HYBRID" -> "3"

\* sep.join(list) for a list of one-character strings
RECURSIVE Join(_, _)
Join(sep, list) ==
    IF list = <<>> THEN <<>>
    ELSE IF Len(list) = 1 THEN <<list[1]>>
    ELSE <<list[1]>> \o sep \o Join(sep, Tail(list))

\* _join_wl(work_location)
join_wl_Sorted(work_location) ==
    Join(<<",">>, [k \in 1..Cardinality(Range(work_location)) |->
        WLValue(WL[CHOOSE n \in 1..Len(WL) :
            /\ WL[n] \in Range(work_location)
            /\ Cardinality({m \in 1..n : WL[m] \in Range(work_location)}) = k])])
join_wl(work_location) ==
    Join(<<",">>, [k \in 1..Len(work_location) |-> WLValue(work_location[k])])

\* convert_days_to_sec(n_days)
convert_days_to_sec_Hours(n_days) == n_days * 3600
convert_days_to_sec(n_days) == n_days * 3600 * 24

\* _format_url_metadata(keywords, n_days, location, geo_id, work_location)
format_url_metadata(q) ==
    [n_seconds |-> convert_days_to_sec(q.n_days),
     work_location |-> join_wl(q.work_location),
     keywords |-> q.keywords,
     location |-> q.location,
     geo_id |-> q.geo_id]

\* The queries a caller passes: any tuple of distinct work locations in
\* any order, and n_days from 0 to MaxDays.
MaxDays == 3
Queries ==
    [keywords : {<<"p", "y">>}, n_days : 0..MaxDays,
     location : {<<"N", "L">>}, geo_id : {<<"1", "0">>},
     work_location :
        {w \in UNION {[1..n -> Range(WL)] : n \in 0..Len(WL)} :
            \A a, b \in 1..Len(w) : a # b => w[a] # w[b]}]

FormatUrlMetadata ==
    \E q \in Queries :
        /\ prevQuery' = query
        /\ prevMetadata' = metadata
        /\ query' = q
        /\ metadata' = format_url_metadata(q)
        /\ UNCHANGED outsideQuery

SpecQuery == Init /\ [][FormatUrlMetadata]_vars

\* ============================================================ save_job_dataframe_to_html_file
\* What f.write receives, one piece per call: a constant of the page, the
\* title block of a job, or a description text.
Piece(kind, link, title, company, location, text) ==
    [kind |-> kind, link |-> link, title |-> title, company |-> company,
     location |-> location, text |-> text]
Constant(kind) == Piece(kind, <<>>, <<>>, <<>>, <<>>, <<>>)
HTML_JOB_SEPARATOR == Constant("HTML_JOB_SEPARATOR")
\* C.HTML_JOB_TITLE.format(link=..., title=..., company=..., location=...)
HTML_JOB_TITLE(link, title, company, location) ==
    Piece("HTML_JOB_TITLE", link, title, company, location, <<>>)
Text(t) == Piece("text", <<>>, <<>>, <<>>, <<>>, t)

\* str(value) of None or of a string
Str(value) == IF value = PyNone THEN <<"N", "o", "n", "e">> ELSE value.s

\* row.get(key, default): the default only where the frame lacks the column
RowGet(d, row, key, default) == IF key \in d.columns THEN row[key] ELSE default

\* The description the loop body writes for a row
DescriptionToWrite(d, row, use_marked_descriptions) ==
    LET marked == RowGet(d, row, KEY_JOB_DESCRIPTION_MARKED, PyNone)
    IN  IF ~use_marked_descriptions \/ marked = PyNone
        THEN RowGet(d, row, "description_html", PyStr(UNKNOWN))
        ELSE marked

\* The three writes of the loop body for the k-th row on
RECURSIVE WriteRows(_, _, _)
WriteRows(d, k, use_marked_descriptions) ==
    IF k > Len(d.rows) THEN <<>>
    ELSE LET row == d.rows[k]
         IN  << HTML_JOB_TITLE(Str(RowGet(d, row, "link", PyStr(UNKNOWN))),
                               Str(RowGet(d, row, "title", PyStr(UNKNOWN))),
                               Str(RowGet(d, row, "company", PyStr(UNKNOWN))),
                               Str(RowGet(d, row, "location", PyStr(UNKNOWN)))),
                Text(Str(DescriptionToWrite(d, row, use_marked_descriptions))),
                HTML_JOB_SEPARATOR >>
             \o WriteRows(d, k + 1, use_marked_descriptions)

\* str.endswith
EndsWith(t, suffix) ==
    /\ Len(t) >= Len(suffix)
    /\ SubSeq(t, Len(t) - Len(suffix) + 1, Len(t)) = suffix
HtmlSuffix == <<".", "h", "t", "m", "l">>

save_job_dataframe_to_html_file_MkdirFirst(d, md, filename, folder, use_marked_descriptions, date) ==
    [raised |-> IF filename # PyNone /\ ~EndsWith(filename.s, HtmlSuffix)
                THEN "AssertionError" ELSE "",
     mkdir |-> {folder}, open |-> {}, written |-> <<>>]

\* save_job_dataframe_to_html_file(df, metadata, filename, folder,
\* use_marked_descriptions) at clock reading `date`: what it raises, the
\* folder and the file it creates and what it writes
save_job_dataframe_to_html_file(d, md, filename, folder, use_marked_descriptions, date) ==
    IF filename # PyNone /\ ~EndsWith(filename.s, HtmlSuffix)
    THEN [raised |-> "AssertionError", mkdir |-> {}, open |-> {},
          written |-> <<>>]
    ELSE LET \* f"{date}_{keywords}_wl={work_location}.html"
             generated == date \o <<"_">> \o md.keywords
                              \o <<"_", "w", "l", "=">>
                              \o md.work_location \o HtmlSuffix
             name == IF filename = PyNone THEN generated ELSE filename.s
         IN  [raised |-> "", mkdir |-> {folder},
              open |-> {[folder |-> folder, filename |-> name]},
              written |-> <<Constant("HTML_START"),
                            Constant("HTML_MARK_SETTINGS"),
                            Constant("HTML_BODY_START")>>
                            \o WriteRows(d, 1, use_marked_descriptions)
                            \o <<Constant("HTML_BODY_END"), Constant("HTML_END")>>]

\* ============================================================ post-processing calls
\* The frames the three functions are called on: a frame scrape_jobs
\* returned, as it is or after get_job_descriptions gave its rows the
\* descriptions `values`.
EntryJava ==
    Entry(Elem(<<"J", "A", "V", "A", " ", "D", "e", "v">>, PyNone),
          Elem(<<"C", "o">>, PyNone), NoElem,
          Elem(<<>>, PyStr(<<"v", "/", "j", "-", "3">>)),
          Elem(<<>>, PyStr(<<"d", "3">>)))
Described(d, values) ==
    [d EXCEPT
        !.columns = @ \cup {"description_html", "has_job_description"},
        !.rows = [k \in 1..Len(d.rows) |->
            [d.rows[k] EXCEPT !.description_html = values[k],
                              !.has_job_description = ~values[k].none]]]
PostFrames ==
    LET scraped ==
            SetHasJobDescriptionFalse(
                DataFrame(ExtractAll(<<EntryJava, EntryNoLink>>)))
        Fetched(t) == PyStr(Prettify(Elem(t, PyNone)))
    IN  {scraped} \cup
        { Described(scraped, values) : values \in
            { <<Fetched(<<" ", "P", "y", " ">>), PyStr(UNKNOWN)>>,
              <<PyStr(UNKNOWN), Fetched(<<"j", "s">>)>>,
              <<Fetched(<<"j", "s">>), PyNone>> } }

\* The arguments callers pass
TitleKeywords ==
    [always_keep : {NoKeywords, Keywords(<< <<"p", "y">> >>)},
     keep : {NoKeywords, Keywords(<< <<"x">>, <<"D", "E", "V">> >>)},
     discard : {NoKeywords, Keywords(<< <<"j", "a", "v", "a">> >>)}]
DescriptionKeywords ==
    { << <<"p", "y">> >>, << <<"x">>, <<"J", "S">> >>, << <<".", "y">> >>,
      << <<"j", "s">>, <<"(">> >> }
SubsetFilters(d) == {NoIndex} \cup {Index(<<d.index[k]>>) : k \in 1..Len(d.index)}
Filenames ==
    {PyNone, PyStr(<<"j">> \o HtmlSuffix), PyStr(<<"j", ".", "t", "x", "t">>)}
Clock == { <<"t", "1">> }
SearchMetadata ==
    {format_url_metadata(q) :
        q \in {r \in Queries : r.n_days = 1 /\ r.work_location = <<"REMOTE">>}}

InitPostProcessing ==
    /\ InitHttp /\ InitCrawl /\ InitDescr /\ InitPost /\ InitExtra
    /\ df \in PostFrames
    /\ query = NoQuery /\ prevQuery = NoQuery /\ prevMetadata = NoMetadata
    /\ metadata \in SearchMetadata

FilterJobTitles ==
    \E kw \in TitleKeywords, idx \in SubsetFilters(df) :
        LET r == filter_job_titles(df, kw.always_keep, kw.keep, kw.discard, idx)
        IN  /\ call = NoCall
            /\ call' = [NoCall EXCEPT !.fn = "filter_job_titles",
                           !.keywords_always_keep = kw.always_keep,
                           !.keywords_keep = kw.keep,
                           !.keywords_discard = kw.discard,
                           !.index_filter = idx]
            /\ dfBefore' = df
            /\ df' = r.df
            /\ outcome' = [raised |-> r.raised, frame |-> r.frame,
                           written |-> <<>>]
            /\ UNCHANGED <<folders, files>>
            /\ UNCHANGED <<outsidePost, queryVars>>

FilterJobDescriptions ==
    \E keywords \in DescriptionKeywords, idx \in SubsetFilters(df),
       mark \in BOOLEAN :
        LET r == filter_job_descriptions(df, keywords, idx, mark)
        IN  /\ call = NoCall
            /\ call' = [NoCall EXCEPT !.fn = "filter_job_descriptions",
                           !.keywords = keywords,
                           !.mark_keywords = mark,
                           !.index_filter = idx]
            /\ dfBefore' = df
            /\ df' = r.df
            /\ outcome' = [raised |-> r.raised, frame |-> r.frame,
                           written |-> <<>>]
            /\ UNCHANGED <<folders, files>>
            /\ UNCHANGED <<outsidePost, queryVars>>

SaveJobDataframeToHtmlFile ==
    \E filename \in Filenames, folder \in {"results"}, use_marked \in BOOLEAN,
       date \in Clock :
        LET r == save_job_dataframe_to_html_file(df, metadata, filename,
                                                 folder, use_marked, date)
        IN  /\ call = NoCall
            /\ call' = [NoCall EXCEPT !.fn = "save_job_dataframe_to_html_file",
                           !.filename = filename,
                           !.folder = folder,
                           !.use_marked_descriptions = use_marked]
            /\ dfBefore' = df
            /\ outcome' = [raised |-> r.raised, frame |-> NoDf,
                           written |-> r.written]
            /\ folders' = folders \cup r.mkdir
            /\ files' = files \cup r.open
            /\ UNCHANGED df
            /\ UNCHANGED <<outsidePost, queryVars>>

\* The caller has taken what the call returned or raised; the frame, the
\* folders and the files stay as the call left them.
ResultConsumed ==
    /\ call # NoCall
    /\ call' = NoCall
    /\ dfBefore' = NoDf
    /\ outcome' = NoOutcomeYet
    /\ UNCHANGED <<df, folders, files>>
    /\ UNCHANGED <<outsidePost, queryVars>>

NextPost ==
    \/ FilterJobTitles
    \/ FilterJobDescriptions
    \/ SaveJobDataframeToHtmlFile
    \/ ResultConsumed

SpecPost == InitPostProcessing /\ [][NextPost]_vars

\* ============================================================ _extract_info_from_single_job_on_job_page
\* The entries a listing page can hold: each sub-element is missing or
\* present; a present <time> element has a datetime attribute or lacks it.
JobEntries ==
    { Entry(title, company, location, link, date) :
        title \in {NoElem, Elem(<<" ", "D", "e", "v", " ">>, PyNone)},
        company \in {NoElem, Elem(<<"C", "o">>, PyNone)},
        location \in {NoElem, Elem(<<"A", ",", "N", "L">>, PyNone),
                      Elem(<<" ", "B">>, PyNone)},
        link \in {NoElem,
                  Elem(<<>>, PyStr(<<"v", "/", "d", "-", "1", "?", "r">>)),
                  Elem(<<>>, PyStr(<<"v", "/", "q", "-", "a", "-", "2">>))},
        date \in {NoElem, Elem(<<>>, PyStr(<<"d", "1">>)), Elem(<<>>, PyNone)} }

InitExtract ==
    /\ InitHttp /\ InitCrawl /\ df = NoDf /\ InitDescr /\ InitPost /\ InitQuery
    /\ html_job \in JobEntries
    /\ job_dict = NoJob
    /\ n_jobs_found = NotDetermined
    /\ InitSession
    /\ InitGui

ExtractInfoFromSingleJob ==
    /\ job_dict = NoJob
    /\ job_dict' = ExtractInfo(html_job)
    /\ UNCHANGED <<html_job, n_jobs_found, sessVars, guiVars, httpVars, crawlVars, df,
                   descrVars, postVars, queryVars>>

SpecExtract == InitExtract /\ [][ExtractInfoFromSingleJob]_vars

\* ============================================================ LinkedinSession life cycle
\* calls made on one LinkedinSession object
MaxSessionOps == 5

outsideSession ==
    <<httpVars, crawlVars, df, descrVars, postVars, queryVars, html_job,
      job_dict, n_jobs_found, guiVars>>

SessionCall(op) == [op |-> op, session |-> session', created |-> nCreated']
Constructed == sessionLog # <<>> /\ sessionLog[1].op # "__init__ raised"
MoreSessionOps == Constructed /\ Len(sessionLog) < MaxSessionOps

\* LinkedinSession(test_session): self.session = None, start_session(), and
\* test_session() when asked for, whose get_html may raise out of __init__.
SessionInit ==
    /\ sessionLog = <<>>
    /\ session' = nCreated + 1
    /\ nCreated' = nCreated + 1
    /\ openSessions' = {nCreated + 1}
    /\ \E test_session \in BOOLEAN, raises \in BOOLEAN :
          /\ raises => test_session
          /\ sessionLog' = <<SessionCall(IF raises THEN "__init__ raised"
                                         ELSE "__init__")>>
    /\ UNCHANGED outsideSession

\* Mutant: start_session does not close the existing session.
StartSession_NoClose ==
    /\ MoreSessionOps
    /\ session' = nCreated + 1
    /\ nCreated' = nCreated + 1
    /\ openSessions' = openSessions \cup {nCreated + 1}
    /\ sessionLog' = Append(sessionLog, SessionCall("start_session"))
    /\ UNCHANGED outsideSession

\* start_session(): close() when self.session is not None, then
\* self.session = Session().
StartSession ==
    /\ MoreSessionOps
    /\ session' = nCreated + 1
    /\ nCreated' = nCreated + 1
    /\ openSessions' = (openSessions \ {session}) \cup {nCreated + 1}
    /\ sessionLog' = Append(sessionLog, SessionCall("start_session"))
    /\ UNCHANGED outsideSession

\* close(): self.session.close(); self.session keeps the closed Session.
SessionClose ==
    /\ MoreSessionOps
    /\ UNCHANGED <<session, nCreated>>
    /\ openSessions' = openSessions \ {session}
    /\ sessionLog' = Append(sessionLog, SessionCall("close"))
    /\ UNCHANGED outsideSession

\* get_html(url): self.session.get(...); a closed requests.Session opens
\* connections again when it is used.
SessionGetHtml ==
    /\ MoreSessionOps
    /\ UNCHANGED <<session, nCreated>>
    /\ openSessions' = openSessions \cup {session}
    /\ sessionLog' = Append(sessionLog, SessionCall("get_html"))
    /\ UNCHANGED outsideSession

NextSession ==
    \/ SessionInit
    \/ StartSession
    \/ SessionClose
    \/ SessionGetHtml

SpecSession == Init /\ [][NextSession]_vars

\* ============================================================ MainWindow
\* Worker threads created in one run of the window
MaxWorkers == 3

outsideGui ==
    <<httpVars, crawlVars, df, descrVars, postVars, queryVars, html_job,
      job_dict, n_jobs_found, sessVars>>

\* _lock_buttons(group) and _unlock_buttons(group); no group means every
\* button.
AllButtons == BUTTON_GROUPS("AFTER_JOB_DESCR") \cup BUTTON_GROUPS("WHILE_ACTION")
lock_buttons(b, group) == b \ group
unlock_buttons(b, group) == b \cup group

\* QThread.isRunning() of Worker w
isRunning(w) == threads[w].st \in {"started", "fetching"}

\* Worker(function, ...) followed by worker.start()
StartWorker(function) ==
    /\ Len(threads) < MaxWorkers
    /\ threads' = Append(threads, [fn |-> function, st |-> "started",
                                   terminated |-> FALSE])
    /\ worker' = Len(threads) + 1

\* _callback_test_session, up to the blocking session.test_session() call
\* made on the GUI thread.
CallbackTestSession ==
    /\ ~testing /\ "test_session" \in buttons
    /\ buttons' = lock_buttons(buttons, AllButtons)
    /\ testing' = TRUE
    /\ UNCHANGED <<last_button_states, worker, threads, results, pd>>
    /\ UNCHANGED outsideGui

\* _callback_test_session, from the return or the caught exception of
\* test_session() on.
CallbackTestSessionEnd ==
    /\ testing
    /\ testing' = FALSE
    /\ buttons' = unlock_buttons(buttons, BUTTON_GROUPS(last_button_states))
    /\ UNCHANGED <<last_button_states, worker, threads, results, pd>>
    /\ UNCHANGED outsideGui

\* _callback_get_n_jobs with complete settings
CallbackGetNJobs ==
    /\ ~testing /\ "get_n_jobs" \in buttons
    /\ StartWorker("determine_n_jobs")
    /\ buttons' = unlock_buttons(lock_buttons(buttons, AllButtons),
                                 BUTTON_GROUPS("WHILE_ACTION"))
    /\ UNCHANGED <<last_button_states, results, testing, pd>>
    /\ UNCHANGED outsideGui

\* _slot_get_n_jobs: a queued result signal of a determine_n_jobs worker
\* is delivered by the event loop.
SlotGetNJobs ==
    /\ ~testing /\ results # <<>>
    /\ results' = Tail(results)
    /\ buttons' = lock_buttons(
                      unlock_buttons(buttons, BUTTON_GROUPS(last_button_states)),
                      BUTTON_GROUPS("WHILE_ACTION"))
    /\ UNCHANGED <<last_button_states, worker, threads, testing, pd>>
    /\ UNCHANGED outsideGui

\* _callback_scrape_jobs with complete settings; _results_saved is None
\* or True, so that no question is asked.
CallbackScrapeJobs ==
    /\ ~testing /\ "scrape_jobs" \in buttons
    /\ StartWorker("scrape_jobs")
    /\ pd' = TRUE
    /\ buttons' = unlock_buttons(lock_buttons(buttons, AllButtons),
                                 BUTTON_GROUPS("WHILE_ACTION"))
    /\ UNCHANGED <<last_button_states, results, testing>>
    /\ UNCHANGED outsideGui

\* The body of _callback_stop_worker: nothing when there is no worker or
\* it is not running; else terminate(), which QThread does not wait for,
\* and the buttons of the last group are unlocked.
StopWorker ==
    IF worker = 0 \/ ~isRunning(worker)
    THEN UNCHANGED <<buttons, threads>>
    ELSE /\ threads' = [threads EXCEPT ![worker].terminated = TRUE]
         /\ buttons' = unlock_buttons(
                           lock_buttons(buttons, BUTTON_GROUPS("WHILE_ACTION")),
                           BUTTON_GROUPS(last_button_states))

\* The "Stop" button is clicked.
CallbackStopWorker ==
    /\ ~testing /\ "stop_worker" \in buttons
    /\ StopWorker
    /\ UNCHANGED <<last_button_states, worker, results, testing, pd>>
    /\ UNCHANGED outsideGui

\* "Cancel" of the progress dialog is confirmed: canceled is emitted, which
\* runs _callback_stop_worker, and the dialog is hidden.
ProgressCanceled ==
    /\ ~testing /\ pd
    /\ StopWorker
    /\ pd' = FALSE
    /\ UNCHANGED <<last_button_states, worker, results, testing>>
    /\ UNCHANGED outsideGui

\* Worker.run of a determine_n_jobs worker enters session.get_html.
WorkerFetches(w) ==
    /\ threads[w].fn = "determine_n_jobs" /\ threads[w].st = "started"
    /\ threads' = [threads EXCEPT ![w].st = "fetching"]
    /\ UNCHANGED <<buttons, last_button_states, worker, results, testing, pd>>
    /\ UNCHANGED outsideGui

\* Worker.run: the function returned, result and finished are emitted.
WorkerReturns(w) ==
    /\ threads[w].st = "fetching"
    /\ \E script \in CountScripts : get_html(script).kind = "ok"
    /\ threads' = [threads EXCEPT ![w].st = "ended"]
    /\ results' = Append(results, w)
    /\ UNCHANGED <<buttons, last_button_states, worker, testing, pd>>
    /\ UNCHANGED outsideGui

\* Worker.run: the function raised, no signal is emitted.  determine_n_jobs
\* raises what get_html raises; scrape_jobs, called without n_jobs, raises
\* TypeError before it fetches anything.
WorkerRaises(w) ==
    /\ \/ /\ threads[w].fn = "determine_n_jobs" /\ threads[w].st = "fetching"
          /\ \E script \in CountScripts : get_html(script).kind # "ok"
       \/ threads[w].fn = "scrape_jobs" /\ threads[w].st = "started"
    /\ threads' = [threads EXCEPT ![w].st = "ended"]
    /\ UNCHANGED <<buttons, last_button_states, worker, results, testing, pd>>
    /\ UNCHANGED outsideGui

\* A thread terminate() was called on stops; until then it keeps running.
WorkerTerminated(w) ==
    /\ threads[w].terminated /\ isRunning(w)
    /\ threads' = [threads EXCEPT ![w].st = "ended"]
    /\ UNCHANGED <<buttons, last_button_states, worker, results, testing, pd>>
    /\ UNCHANGED outsideGui

NextGui ==
    \/ CallbackTestSession
    \/ CallbackTestSessionEnd
    \/ CallbackGetNJobs
    \/ SlotGetNJobs
    \/ CallbackScrapeJobs
    \/ CallbackStopWorker
    \/ ProgressCanceled
    \/ \E w \in 1..Len(threads) : WorkerFetches(w)
    \/ \E w \in 1..Len(threads) : WorkerReturns(w)
    \/ \E w \in 1..Len(threads) : WorkerRaises(w)
    \/ \E w \in 1..Len(threads) : WorkerTerminated(w)

SpecGui == Init /\ [][NextGui]_vars

\* ============================================================ claims
\* ------------------------------------------------------------ get_html
LastStatus == IF lastOutcome.exc THEN 0 ELSE lastOutcome.res.status_code

\* C1: when the first 200 of a call arrives at request k (no 400 before
\* it), request k is the last request of the call, the call returns the
\* document parsed from that k-th response, and it has slept once per 429
\* received before it.
C1_First200Returns ==
    (first200 > 0 /\ (first400 = 0 \/ first400 > first200)) =>
        /\ first200 <= MAX_TRIES
        /\ requests = first200
        /\ pc \in {"after", "done"}
        /\ sleeps = n429
        /\ pc = "done" =>
              result = Returned(BeautifulSoup(lastOutcome.res.content))

\* The scripted sequence [429, 429, 200]: 3 requests, 2 sleeps, success.
C1_Witness ==
    /\ pc = "done" /\ requests = 3 /\ n429 = 2 /\ nResp = 3
    /\ first200 = 3 /\ sleeps = 2 /\ result.kind = "ok"

\* C2: once a request of a call is answered 400 the call issues no further
\* request and makes no sleep, and it ends raising BadStatusCode(400).
C2_400StopsAtOnce ==
    first400 > 0 =>
        /\ requests = first400
        /\ lastEvent = "request"
        /\ sleeps = n429
        /\ pc \in {"after", "done"}
        /\ pc = "done" => result = BadStatusCode(400)

\* The scripted sequence [400]: one request, BadStatusCode(400).
C2_Witness ==
    /\ pc = "done" /\ requests = 1 /\ first400 = 1 /\ sleeps = 0
    /\ result = BadStatusCode(400)

\* C3 as claimed: a call that used all MAX_TRIES attempts without any 200
\* raises SystemError.
C3_ExhaustedRaisesSystemError ==
    (pc = "done" /\ requests = MAX_TRIES /\ first200 = 0) =>
        result = SystemError

\* C3: a call that used all MAX_TRIES attempts and received no response at
\* all (every attempt raised a transport exception) raises SystemError.
C3_NoResponseRaisesSystemError ==
    (pc = "done" /\ requests = MAX_TRIES /\ nResp = 0) =>
        result = SystemError

C3_Witness ==
    /\ pc = "done" /\ requests = MAX_TRIES /\ nResp = 0
    /\ result = SystemError

\* C4: a call whose last attempt was answered 429 has used all MAX_TRIES
\* attempts and raises TimeoutError, no other error.
C4_Final429RaisesTimeout ==
    (pc = "done" /\ LastStatus = 429) =>
        /\ requests = MAX_TRIES
        /\ result = TimeoutError

\* Only the last of the 20 attempts was answered 429.
C4_Witness ==
    /\ pc = "done" /\ LastStatus = 429 /\ n429 = 1 /\ requests = MAX_TRIES
    /\ result = TimeoutError

\* C5 as claimed: a sleep is made only directly after a 429 response, lasts
\* MIN_TIMEOUT_ON_429..MAX_TIMEOUT_ON_429 seconds and is followed by a retry
\* request; no sleep is made after an exception or another status.
C5_SleepOnlyBeforeRetry ==
    /\ pc = "sleep" => (lastEvent = "request" /\ LastStatus = 429)
    /\ (lastEvent = "request" /\ LastStatus # 429) => pc # "sleep"
    /\ lastEvent = "sleep" =>
          /\ LastStatus = 429
          /\ lastSleep \in MIN_TIMEOUT_ON_429..MAX_TIMEOUT_ON_429
          /\ pc = "loop" /\ i < MAX_TRIES

\* C6: every call issues between 1 and MAX_TRIES requests and then ends with
\* a document or one of the three exceptions; every attempt, also one that
\* raised a transport exception, uses up one value of range(MAX_TRIES); this
\* holds for a later call on the session as for the first one.
C6_AttemptBudget ==
    /\ requests = i
    /\ requests <= MAX_TRIES
    /\ pc \in {"after", "done"} => requests >= 1
    /\ pc = "done" =>
          result.kind \in {"ok", "SystemError", "TimeoutError", "BadStatusCode"}
    /\ pc \in {"loop", "sleep", "after"} => ENABLED Next

\* A second call on the session that used its full budget, part of it on
\* transport exceptions, after a first call that used its own.
C6_Witness ==
    /\ calls = 2 /\ pc = "done" /\ requests = MAX_TRIES
    /\ nResp > 0 /\ nResp < requests
    /\ result.kind = "BadStatusCode"

\* ------------------------------------------------------------ scrape_jobs
\* The records of the entries of the first n logged page fetches, in page
\* order and, within a page, in entry order.
RECURSIVE RecordsOf(_, _)
RecordsOf(log, n) ==
    IF n = 0 THEN <<>>
    ELSE RecordsOf(log, n - 1) \o ExtractAll(log[n].li)

\* The collection holding exactly `records`, none with a description.
CollectionOf(records) ==
    [k \in 1..Len(records) |->
        [title |-> records[k].title, company |-> records[k].company,
         link |-> records[k].link, job_id |-> records[k].job_id,
         location |-> records[k].location, date |-> records[k].date,
         has_job_description |-> FALSE, description_html |-> PyNone,
         keep_job_after_title_filter |-> CellNaN,
         descr_contains_keyword |-> CellNaN,
         description_html_marked |-> PyNone]]

FailedFetches == {k \in 1..Len(pageLog) : ~pageLog[k].ok}

\* C7: when the fetch of a listing page fails, it is the last page fetch
\* of the crawl, scrape_jobs raises nothing, and it returns exactly the
\* records of the pages fetched before it (none if it was the first).
C7_FailedPageEndsCrawl ==
    \A k \in FailedFetches :
        /\ k = Len(pageLog)
        /\ pageLog[k].page = page_start + k - 1
        /\ spc \in {"return", "done"}
        /\ scrapeError = NoResult
        /\ spc = "done" => df.rows = CollectionOf(RecordsOf(pageLog, k - 1))

\* A crawl that gathered records and then failed on a later page.
C7_Witness ==
    /\ spc = "done" /\ scrapeError = NoResult
    /\ Len(pageLog) >= 2 /\ FailedFetches = {Len(pageLog)}
    /\ Len(df.rows) > 0

\* C8 as claimed: a fetched listing page without entries is the last page
\* the crawl requests.
C8_EmptyPageEndsCrawl ==
    \A k \in 1..Len(pageLog) :
        (pageLog[k].ok /\ pageLog[k].li = <<>>) => k = Len(pageLog)

\* C9: the listing pages are requested in increasing page order from
\* page_start, page p at start offset p * N_JOBS_PER_PAGE, and the returned
\* collection is the concatenation of the records of all fetched pages in
\* page order then entry order, duplicates kept, each with
\* has_job_description = false.
C9_PageThenEntryOrder ==
    /\ \A k \in 1..Len(pageLog) :
          /\ pageLog[k].page = page_start + k - 1
          /\ pageLog[k].url = JobPageUrl(pageLog[k].page * 10)
    /\ spc = "done" =>
          /\ df.rows = CollectionOf(RecordsOf(pageLog, Len(pageLog)))
          /\ "has_job_description" \in df.columns
          /\ \A k \in 1..Len(df.rows) : df.rows[k].has_job_description = FALSE

\* Two pages of 10 entries followed by a page without entries: 20 records.
C9_Witness ==
    /\ spc = "done" /\ Len(pageLog) = 3
    /\ Len(pageLog[1].li) = 10 /\ Len(pageLog[2].li) = 10
    /\ pageLog[3].ok /\ pageLog[3].li = <<>>
    /\ Len(df.rows) = 20
    /\ df.rows[1] = df.rows[3] /\ df.rows[11] = df.rows[1]

\* ------------------------------------------------------------ get_job_descriptions
DescriptionOf(row_id) == df.rows[Pos(df, row_id)].description_html
Targeted == IF index_filter.none THEN df.index ELSE index_filter.labels

\* C10 as claimed: no failure of a description fetch aborts the batch; a
\* record whose fetch failed (TimeoutError, BadStatusCode or SystemError) or
\* whose page lacks the description element gets UNKNOWN, and every record
\* of the subset is fetched.
C10_FailureNeverAborts ==
    /\ dpc # "raised"
    /\ \A k \in 1..Len(descrLog) :
          descrLog[k].kind # "found" =>
              DescriptionOf(descrLog[k].row_id) = PyStr(UNKNOWN)
    /\ dpc = "done" =>
          /\ Len(descrLog) = Len(Targeted)
          /\ \A k \in 1..Len(Targeted) : descrLog[k].row_id = Targeted[k]

\* C11 as claimed: once get_job_descriptions has returned, a record has
\* has_job_description true exactly when its description is present and
\* is not the UNKNOWN sentinel, and the returned collection holds exactly
\* the records with has_job_description true, so that no record whose
\* description is UNKNOWN is returned.
C11_UnknownNotReturned ==
    dpc = "done" =>
        /\ \A k \in 1..Len(df.rows) :
              df.rows[k].has_job_description <=>
                  /\ df.rows[k].description_html # PyNone
                  /\ df.rows[k].description_html # PyStr(UNKNOWN)
        /\ returned = LocMask(df,
              {k \in 1..Len(df.rows) : df.rows[k].has_job_description})
        /\ \A k \in 1..Len(returned.rows) :
              returned.rows[k].description_html # PyStr(UNKNOWN)

\* ------------------------------------------------------------ filter_job_titles
\* keyword occurs in text, letter case ignored
CiOccurs(keyword, text) ==
    \E p \in 0..(Len(text) - Len(keyword)) :
        \A j \in 1..Len(keyword) : LowerChar(text[p + j]) = LowerChar(keyword[j])
AnyOccurs(keywords, text) ==
    \E k \in 1..Len(keywords) : CiOccurs(keywords[k], text)
\* The positions of df the latest call targeted
TargetedRows ==
    {k \in 1..Len(df.rows) :
        call.index_filter.none \/ df.index[k] \in Range(call.index_filter.labels)}
TitlePassed == call.fn = "filter_job_titles" /\ outcome.raised # "AssertionError"

\* C12: after a title pass every targeted record holds the verdict
\* isAlwaysKeep OR (isKeep AND NOT isDiscard), each flag a case-insensitive
\* substring test of the title against its keyword set, an absent set
\* counting as false, true, false; with only discard = {"java"} a title is
\* kept exactly when it does not contain "java".
C12_TitleVerdictFormula ==
    TitlePassed =>
        \A k \in TargetedRows :
            LET title == df.rows[k].title.s
                isAlwaysKeep == /\ ~call.keywords_always_keep.none
                                /\ AnyOccurs(call.keywords_always_keep.list, title)
                isKeep == \/ call.keywords_keep.none
                          \/ AnyOccurs(call.keywords_keep.list, title)
                isDiscard == /\ ~call.keywords_discard.none
                             /\ AnyOccurs(call.keywords_discard.list, title)
            IN  /\ df.rows[k].keep_job_after_title_filter =
                       CellBool(isAlwaysKeep \/ (isKeep /\ ~isDiscard))
                /\ (/\ call.keywords_always_keep.none
                    /\ call.keywords_keep.none
                    /\ call.keywords_discard = Keywords(<< <<"j", "a", "v", "a">> >>))
                   => (df.rows[k].keep_job_after_title_filter = CellBool(TRUE)
                         <=> ~CiOccurs(<<"j", "a", "v", "a">>, title))

\* A pass over all records with only discard = {"java"}: "JAVA Dev" is
\* discarded, "Py" is kept and returned.
C12_Witness ==
    /\ TitlePassed /\ call.index_filter.none
    /\ call.keywords_always_keep.none /\ call.keywords_keep.none
    /\ ~call.keywords_discard.none
    /\ df.rows[1].title.s = <<"J", "A", "V", "A", " ", "D", "e", "v">>
    /\ df.rows[1].keep_job_after_title_filter = CellBool(FALSE)
    /\ df.rows[2].keep_job_after_title_filter = CellBool(TRUE)
    /\ outcome.raised = "" /\ outcome.frame.index = <<1>>

\* C13: filter_job_titles with all three keyword sets None,
\* filter_job_descriptions on a frame without the description column and
\* save_job_dataframe_to_html_file with a filename not ending in ".html"
\* each raise AssertionError, and a call that raises it has changed neither
\* the frame nor the folders nor the files.
C13_FailFast ==
    [][ call = NoCall /\ call' # NoCall =>
          /\ (/\ call'.fn = "filter_job_titles"
              /\ call'.keywords_always_keep.none
              /\ call'.keywords_keep.none
              /\ call'.keywords_discard.none) => outcome'.raised = "AssertionError"
          /\ (/\ call'.fn = "filter_job_descriptions"
              /\ "description_html" \notin df.columns)
                 => outcome'.raised = "AssertionError"
          /\ (/\ call'.fn = "save_job_dataframe_to_html_file"
              /\ call'.filename # PyNone
              /\ ~EndsWith(call'.filename.s, HtmlSuffix))
                 => outcome'.raised = "AssertionError"
          /\ outcome'.raised = "AssertionError" =>
                /\ df' = df /\ folders' = folders /\ files' = files
                /\ outcome'.frame = NoDf /\ outcome'.written = <<>> ]_vars

\* A save under the name "j.txt" raised AssertionError with no folder and
\* no file in existence and the frame as it was.
C13_Witness ==
    /\ call.fn = "save_job_dataframe_to_html_file"
    /\ call.filename = PyStr(<<"j", ".", "t", "x", "t">>)
    /\ outcome.raised = "AssertionError"
    /\ folders = {} /\ files = {}
    /\ df = dfBefore /\ Len(df.rows) = 2

\* C14: a title pass restricted to a subset leaves every record outside
\* the subset as it was, its verdict of earlier passes included, after any
\* sequence of passes.
C14_OutsideSubsetUntouched ==
    TitlePassed =>
        /\ Len(df.rows) = Len(dfBefore.rows) /\ df.index = dfBefore.index
        /\ \A k \in 1..Len(df.rows) :
              k \notin TargetedRows => df.rows[k] = dfBefore.rows[k]

\* A second pass, on the second record only, with discard = {"java"}: the
\* first record, "JAVA Dev", keeps the true verdict of the earlier pass and
\* the second record's verdict changes from false to true.
C14_Witness ==
    /\ TitlePassed /\ call.index_filter = Index(<<1>>)
    /\ call.keywords_discard = Keywords(<< <<"j", "a", "v", "a">> >>)
    /\ call.keywords_always_keep.none /\ call.keywords_keep.none
    /\ dfBefore.rows[1].keep_job_after_title_filter = CellBool(TRUE)
    /\ df.rows[1].keep_job_after_title_filter = CellBool(TRUE)
    /\ dfBefore.rows[2].keep_job_after_title_filter = CellBool(FALSE)
    /\ df.rows[2].keep_job_after_title_filter = CellBool(TRUE)

\* C15 as claimed: a title pass completes and returns exactly the records
\* whose stored verdict is true, so that a record outside the subset that
\* never got a verdict is not returned.
C15_ReturnsStoredTrue ==
    TitlePassed =>
        /\ outcome.raised = ""
        /\ outcome.frame =
              LocMask(df, {k \in 1..Len(df.rows) :
                  df.rows[k].keep_job_after_title_filter = CellBool(TRUE)})

\* ------------------------------------------------------------ filter_job_descriptions
DescriptionPassed ==
    call.fn = "filter_job_descriptions" /\ outcome.raised # "AssertionError"
Returns(k) == df.index[k] \in Range(outcome.frame.index)

\* C16 as claimed: for every keyword set and both values of mark_keywords,
\* a targeted record whose description is UNKNOWN gets the verdict UNKNOWN
\* and is among the records returned.
C16_UnknownSurvives ==
    DescriptionPassed =>
        \A k \in TargetedRows :
            df.rows[k].description_html = PyStr(UNKNOWN) =>
                /\ df.rows[k].descr_contains_keyword = CellUnknown
                /\ Returns(k)

\* C17 as claimed: the pass returns exactly the records whose verdict is
\* true or UNKNOWN; a targeted record with a real description gets the
\* verdict true exactly when at least one keyword occurs in it, letter case
\* ignored; a record without a description is skipped, its verdict unset,
\* and is not returned.
C17_VerdictIsOccurrence ==
    DescriptionPassed =>
        /\ outcome.raised = ""
        /\ \A k \in 1..Len(df.rows) :
              Returns(k) <=>
                  df.rows[k].descr_contains_keyword \in {CellBool(TRUE), CellUnknown}
        /\ \A k \in TargetedRows :
              LET descr == df.rows[k].description_html
              IN  /\ (descr # PyNone /\ descr # PyStr(UNKNOWN)) =>
                         df.rows[k].descr_contains_keyword =
                             CellBool(AnyOccurs(call.keywords, descr.s))
                  /\ descr = PyNone =>
                         /\ df.rows[k].descr_contains_keyword = CellNone
                         /\ ~Returns(k)

\* C24 as claimed: for every description and keyword set a pass with
\* mark_keywords = true gives every record the verdict that the same pass
\* with mark_keywords = false gives it, stores the marked text in a field
\* of its own and leaves the original description unchanged.
C24_MarkedVerdictEqualsPlain ==
    (DescriptionPassed /\ call.mark_keywords) =>
        LET plain == filter_job_descriptions(dfBefore, call.keywords,
                                             call.index_filter, FALSE)
        IN  /\ outcome.raised = plain.raised
            /\ \A k \in 1..Len(df.rows) :
                  /\ df.rows[k].descr_contains_keyword =
                         plain.df.rows[k].descr_contains_keyword
                  /\ df.rows[k].description_html = dfBefore.rows[k].description_html
                  /\ (df.rows[k].descr_contains_keyword.kind = "bool") =>
                         df.rows[k].description_html_marked # PyNone

\* C28: a description pass sets the verdict and the marked description of
\* every record outside the targeted subset to None, whatever an earlier
\* pass had stored there, and returns only records of the targeted subset.
C28_PassResetsAllRecords ==
    DescriptionPassed =>
        /\ {"descr_contains_keyword", KEY_JOB_DESCRIPTION_MARKED} \subseteq df.columns
        /\ \A k \in 1..Len(df.rows) :
              k \notin TargetedRows =>
                  /\ df.rows[k].descr_contains_keyword = CellNone
                  /\ df.rows[k].description_html_marked = PyNone
        /\ \A k \in 1..Len(df.rows) : Returns(k) => k \in TargetedRows

\* A pass on the second record alone: the first record had the verdict
\* true and a marked description from an earlier pass and has lost both.
C28_Witness ==
    /\ DescriptionPassed /\ call.index_filter = Index(<<1>>)
    /\ dfBefore.rows[1].descr_contains_keyword = CellBool(TRUE)
    /\ dfBefore.rows[1].description_html_marked # PyNone
    /\ df.rows[1].descr_contains_keyword = CellNone
    /\ df.rows[1].description_html_marked = PyNone
    /\ df.rows[2].descr_contains_keyword = CellUnknown
    /\ outcome.frame.index = <<1>>

\* ------------------------------------------------------------ save_job_dataframe_to_html_file
\* The description C20 says is written for the k-th record
ClaimedDescription(k) ==
    LET row == df.rows[k]
        hasMarked == /\ KEY_JOB_DESCRIPTION_MARKED \in df.columns
                     /\ row.description_html_marked # PyNone
        hasRaw == /\ "description_html" \in df.columns
                  /\ row.description_html # PyNone
    IN  IF call.use_marked_descriptions /\ hasMarked
        THEN row.description_html_marked.s
        ELSE IF hasRaw THEN row.description_html.s ELSE UNKNOWN

\* C20 as claimed: for every record the report holds the title block, then
\* the marked description if use_marked_descriptions and it is present,
\* else the raw description if present, else UNKNOWN (also where the
\* description column exists but the record was never fetched), then the
\* separator.
C20_DescriptionFallback ==
    (call.fn = "save_job_dataframe_to_html_file" /\ outcome.raised = "") =>
        /\ Len(outcome.written) = 3 * Len(df.rows) + 5
        /\ \A k \in 1..Len(df.rows) :
              /\ outcome.written[3 * k + 1].kind = "HTML_JOB_TITLE"
              /\ outcome.written[3 * k + 2] = Text(ClaimedDescription(k))
              /\ outcome.written[3 * k + 3] = HTML_JOB_SEPARATOR

\* ------------------------------------------------------------ _format_url_metadata
\* C18 as claimed: the work locations are joined in one fixed enum order,
\* so two queries with the same set of work locations, in whatever order
\* they are given, get the same work_location parameter.
C18_FixedEnumOrder ==
    Range(query.work_location) = Range(prevQuery.work_location) =>
        metadata.work_location = prevMetadata.work_location

\* C18, amended: the work_location parameter holds the codes of the work
\* locations in the order in which they are given, separated by commas;
\* two queries giving the same work locations in the same order get the
\* same parameter.
C18_GivenOrder ==
    LET wl == query.work_location
        param == metadata.work_location
    IN  /\ Len(param) = (IF wl = <<>> THEN 0 ELSE 2 * Len(wl) - 1)
        /\ \A k \in 1..Len(wl) : param[2 * k - 1] = WLValue(wl[k])
        /\ \A k \in 1..(Len(wl) - 1) : param[2 * k] = ","
        /\ wl = prevQuery.work_location =>
              param = prevMetadata.work_location

\* The same two work locations, given in the two orders.
C18_Witness ==
    /\ prevQuery.work_location = <<"REMOTE", "HYBRID">>
    /\ prevMetadata.work_location = <<"2", ",", "3">>
    /\ query.work_location = <<"HYBRID", "REMOTE">>
    /\ metadata.work_location = <<"3", ",", "2">>

\* C19: the dictionary is a function of the arguments alone, with
\* n_seconds = n_days * 86400 for every n_days >= 0, and a call leaves the
\* session, the crawl and the frame as they were.
C19_PureAndSeconds ==
    /\ metadata =
          [n_seconds |-> query.n_days * 86400,
           work_location |->
               Join(<<",">>, [k \in 1..Len(query.work_location) |->
                                 WLValue(query.work_location[k])]),
           keywords |-> query.keywords,
           location |-> query.location,
           geo_id |-> query.geo_id]
    /\ query = prevQuery => metadata = prevMetadata
    /\ InitHttp /\ InitCrawl /\ InitDescr /\ InitPost /\ df = NoDf

\* The same query of 3 days asked twice: 259200 seconds both times.
C19_Witness ==
    /\ query.n_days = 3 /\ query.work_location = <<"ON_SITE", "HYBRID">>
    /\ metadata.n_seconds = 259200
    /\ prevQuery = query /\ prevMetadata = metadata

\* ------------------------------------------------------------ get_html, failure classes
\* C23: a call that ends without a 200 is classified by the last response
\* it received, whatever exceptions came after it: TimeoutError when that
\* response was a 429, otherwise BadStatusCode carrying its status code;
\* SystemError is raised exactly when no response was received, all
\* MAX_TRIES attempts having raised an exception. The response the call
\* holds is the one received last: each received response replaces it and
\* no other step of the call changes it.
C23_ClassifiedByLastReceived ==
    /\ []((pc = "done" /\ first200 = 0) =>
            /\ result = SystemError <=> nResp = 0
            /\ nResp = 0 => requests = MAX_TRIES
            /\ (nResp > 0 /\ res.status_code = 429) => result = TimeoutError
            /\ (nResp > 0 /\ res.status_code # 429) =>
                   result = BadStatusCode(res.status_code))
    /\ [][ /\ nResp' = nResp + 1 =>
                (~lastOutcome'.exc /\ res' = lastOutcome'.res)
           /\ (nResp' = nResp /\ calls' = calls) => res' = res ]_vars

\* One 429 was received and the attempts after it raised exceptions, the
\* last of the 20 included: TimeoutError.
C23_Witness ==
    /\ pc = "done" /\ requests = MAX_TRIES
    /\ nResp = 1 /\ n429 = 1 /\ lastOutcome.exc
    /\ result = TimeoutError

\* ------------------------------------------------------------ _extract_info_from_single_job_on_job_page
\* C21 as claimed: for every combination of present and missing
\* sub-elements the extraction returns a record without a null field; the
\* field of a missing element is UNKNOWN, the link is the href up to its
\* "?", and the job id is what follows the last "-" of the link (UNKNOWN
\* when the link is missing).
C21_NoNullField ==
    job_dict # NoJob =>
        /\ \A f \in JobColumns : job_dict[f] # PyNone
        /\ html_job.title.none => job_dict.title = PyStr(UNKNOWN)
        /\ html_job.company.none => job_dict.company = PyStr(UNKNOWN)
        /\ html_job.location.none => job_dict.location = PyStr(UNKNOWN)
        /\ html_job.date.none => job_dict.date = PyStr(UNKNOWN)
        /\ html_job.link.none =>
              job_dict.link = PyStr(UNKNOWN) /\ job_dict.job_id = PyStr(UNKNOWN)
        /\ ~html_job.link.none =>
              LET href == html_job.link.attr.s
                  link == job_dict.link.s
              IN  /\ "?" \notin Range(link)
                  /\ Len(link) <= Len(href) /\ SubSeq(href, 1, Len(link)) = link
                  /\ Len(link) = Len(href) \/ href[Len(link) + 1] = "?"
                  /\ "-" \notin Range(job_dict.job_id.s)
                  /\ link = SubSeq(link, 1, Len(link) - Len(job_dict.job_id.s))
                              \o job_dict.job_id.s
                  /\ link[Len(link) - Len(job_dict.job_id.s)] = "-"

\* C26: a scrape_jobs call requests at most
\* max(0, ceil(N / 10) - page_start) listing pages, all numbered within
\* page_start .. ceil(N / 10) - 1, N being the number of jobs the loop runs
\* with; when page_start >= ceil(N / 10) no page is requested and the
\* collection returned is empty.  A call without n_jobs requests no page.
C26_LastPage == ceil_div(n_jobs, N_JOBS_PER_PAGE)
C26_WitnessNoPage ==
    /\ spc = "done" /\ n_jobs = 15 /\ page_start = 2
    /\ pageLog = <<>> /\ df.rows = <<>>

\* C27 as claimed: a scrape_jobs call without n_jobs makes exactly one
\* job-count fetch before any listing page, a call with n_jobs makes none,
\* and the only failures of the count step are SystemError, TimeoutError
\* and BadStatusCode, after which no page is requested and nothing is
\* returned.
C27_OneCountFetch ==
    spc # "idle" =>
        /\ n_jobs # NoneInt => countFetches = 0
        /\ n_jobs = NoneInt => countFetches = 1
        /\ spc = "raised" =>
              /\ scrapeError.kind \in {"SystemError", "TimeoutError", "BadStatusCode"}
              /\ pageLog = <<>>
              /\ df = NoDf

\* C25: at most one Session created by the object is open, and it is the
\* current one; start_session leaves the session it replaces closed and
\* the new one as the only open one; every get_html call uses the Session
\* created last.
C25_OneOpenSession ==
    /\ [](/\ Cardinality(openSessions) <= 1
          /\ openSessions \subseteq {session}
          /\ session = nCreated
          /\ \A k \in 1..Len(sessionLog) :
                sessionLog[k].session = sessionLog[k].created)
    /\ [][nCreated' # nCreated =>
            /\ session \notin openSessions'
            /\ openSessions' = {nCreated'}
            /\ session' = nCreated']_vars

\* A third Session is in use after a close and a restart; only it is open.
C25_Witness ==
    /\ nCreated = 3 /\ openSessions = {3}
    /\ Len(sessionLog) = MaxSessionOps
    /\ sessionLog[2].op = "get_html"
    /\ sessionLog[MaxSessionOps].op = "start_session"

\* The operations using the shared LinkedinSession: the worker threads
\* inside get_html and the GUI thread inside test_session.
SessionUsers ==
    Cardinality({w \in 1..Len(threads) : threads[w].st = "fetching"})
        + (IF testing THEN 1 ELSE 0)

\* C22 as claimed: at most one operation uses the shared LinkedinSession
\* at any time, under every interleaving of clicks, worker completion and
\* Stop.
C22_OneSessionUser == SessionUsers <= 1

\* C29 as claimed, in finite-run form: once every worker that was started
\* has ended (returned, raised or stopped), no result signal is waiting and
\* the GUI thread is idle, the buttons of the last group are enabled and
\* Stop is disabled.  (Pressing Stop in such a state changes nothing.)
C29_ButtonsRestored ==
    (/\ threads # <<>>
     /\ \A w \in 1..Len(threads) : threads[w].st = "ended"
     /\ results = <<>>
     /\ ~testing) =>
        /\ BUTTON_GROUPS(last_button_states) \subseteq buttons
        /\ "stop_worker" \notin buttons

====
